---- MODULE Spec2Model ----
(***************************************************************************)
(* A model of the Blockstack name-database state engine                    *)
(* (blockstack/lib/nameset/namedb.py) and of the operation dispatcher      *)
(* (blockstack/lib/operations/__init__.py).                                *)
(*                                                                         *)
(* Part I  : the process-wide read/write handle discipline                 *)
(*           (borrow_readwrite_instance / release_readwrite_instance /     *)
(*           get_readwrite_instance / get_readonly_instance).              *)
(***************************************************************************)
EXTENDS Integers, Sequences, FiniteSets, TLC

\* ------------------------------------------------------------------------
\* Bounds of the handle model
\* ------------------------------------------------------------------------
NumThreads == 2
MaxHandles == 3
MaxBorrowBlock == 2

Threads == 1..NumThreads
HandleIds == 1..MaxHandles
BorrowBlocks == 1..MaxBorrowBlock

\* Python's None, for the writer slot, the recorded block and the lock owner
None == 0

DISPOSITION_RO == "readonly"
DISPOSITION_RW == "readwrite"

VARIABLES
    blockstack_db,            \* the global writer slot: a handle id or None
    blockstack_db_lastblock,  \* block number recorded by the last borrow, or None
    blockstack_db_lock,       \* threading.Lock: the thread that holds it, or None
    handles,                  \* handle id -> [disposition, open, borrowed], created so far
    tpc,                      \* per thread: position inside borrow/release
    targ,                     \* per thread: the arguments of the call in progress
    aborted,                  \* os.abort() was called: the process is gone
    engine,                   \* the state engine that processes the block stream (Part II)
    peer,                     \* a second engine that is fed the same block stream
    stream,                   \* the number of blocks the block stream still holds
    oc                        \* the loop state of one op_check call (Part III)

hvars == <<blockstack_db, blockstack_db_lastblock, blockstack_db_lock,
           handles, tpc, targ, aborted>>
pvars == <<engine, peer, stream>>
ovars == <<oc>>
vars == <<blockstack_db, blockstack_db_lastblock, blockstack_db_lock,
          handles, tpc, targ, aborted, engine, peer, stream, oc>>

NoArg == [db_inst |-> None, block_number |-> None]

\* the handles constructed so far
Created == DOMAIN handles

\* BlockstackDB.__init__ : a fresh handle object with the given disposition
NewHandle(disposition, borrowed) ==
    [disposition |-> disposition, open |-> TRUE, borrowed |-> borrowed]

\* BlockstackDB.close : commit and close the sqlite connection
CloseOf(h) == [h EXCEPT !.open = FALSE]

FreshId == Cardinality(Created) + 1

HandleInit ==
    /\ blockstack_db = None
    /\ blockstack_db_lastblock = None
    /\ blockstack_db_lock = None
    /\ handles = <<>>
    /\ tpc = [t \in Threads |-> "idle"]
    /\ targ = [t \in Threads |-> NoArg]
    /\ aborted = FALSE

\* ---- borrow_readwrite_instance ------------------------------------------

\* blockstack_db_lock.acquire() at the top of borrow_readwrite_instance
BorrowAcquire(t, block_number) ==
    /\ ~aborted
    /\ tpc[t] = "idle"
    /\ blockstack_db_lock = None
    /\ blockstack_db_lock' = t
    /\ tpc' = [tpc EXCEPT ![t] = "borrow"]
    /\ targ' = [targ EXCEPT ![t] = [db_inst |-> None, block_number |-> block_number]]
    /\ UNCHANGED <<blockstack_db, blockstack_db_lastblock, handles, aborted>>

\* a borrow whose singleton assertion was dropped
BorrowViolation_NoAssert == FALSE

\* the assertion "blockstack_db is None" of borrow_readwrite_instance
BorrowViolation == blockstack_db # None

\* the rest of borrow_readwrite_instance, run while holding the lock
BorrowBody(t, rc) ==
    /\ ~aborted
    /\ tpc[t] = "borrow"
    /\ IF BorrowViolation
       THEN \* os.abort()
            /\ aborted' = TRUE
            /\ tpc' = [tpc EXCEPT ![t] = "borrow_abort"]
            /\ UNCHANGED <<blockstack_db, blockstack_db_lastblock, blockstack_db_lock,
                           handles, targ>>
       ELSE /\ FreshId \in HandleIds
            /\ IF ~rc
               THEN \* db_setup failed: db.close(), release the lock, return None
                    /\ handles' = handles @@ (FreshId :> CloseOf(NewHandle(DISPOSITION_RW, FALSE)))
                    /\ UNCHANGED <<blockstack_db, blockstack_db_lastblock>>
               ELSE /\ handles' = handles @@ (FreshId :> NewHandle(DISPOSITION_RW, TRUE))
                    /\ blockstack_db' = FreshId
                    /\ blockstack_db_lastblock' = targ[t].block_number
            /\ blockstack_db_lock' = None
            /\ tpc' = [tpc EXCEPT ![t] = "idle"]
            /\ targ' = [targ EXCEPT ![t] = NoArg]
            /\ UNCHANGED aborted

\* BlockstackDB(...) or db.db_setup() raises inside borrow_readwrite_instance:
\* the exception leaves the call, which has no handler around them; the lock
\* was acquired and is not released, the handle object is not referenced
BorrowRaise(t) ==
    /\ ~aborted
    /\ tpc[t] = "borrow"
    /\ ~BorrowViolation
    /\ tpc' = [tpc EXCEPT ![t] = "idle"]
    /\ targ' = [targ EXCEPT ![t] = NoArg]
    /\ UNCHANGED <<blockstack_db, blockstack_db_lastblock, blockstack_db_lock,
                   handles, aborted>>

\* ---- release_readwrite_instance -----------------------------------------

\* blockstack_db_lock.acquire() at the top of release_readwrite_instance
ReleaseAcquire(t, db_inst, block_number) ==
    /\ ~aborted
    /\ tpc[t] = "idle"
    /\ blockstack_db_lock = None
    /\ blockstack_db_lock' = t
    /\ tpc' = [tpc EXCEPT ![t] = "release"]
    /\ targ' = [targ EXCEPT ![t] = [db_inst |-> db_inst, block_number |-> block_number]]
    /\ UNCHANGED <<blockstack_db, blockstack_db_lastblock, handles, aborted>>

\* a release that does not compare the block numbers
ReleaseViolation_AnyBlock(db_inst, block_number) ==
    \/ blockstack_db = None
    \/ blockstack_db # db_inst

\* the three assertions of release_readwrite_instance
ReleaseViolation(db_inst, block_number) ==
    \/ blockstack_db = None
    \/ blockstack_db # db_inst
    \/ blockstack_db_lastblock # block_number

\* the rest of release_readwrite_instance, run while holding the lock
ReleaseBody(t) ==
    /\ ~aborted
    /\ tpc[t] = "release"
    /\ IF ReleaseViolation(targ[t].db_inst, targ[t].block_number)
       THEN \* os.abort()
            /\ aborted' = TRUE
            /\ tpc' = [tpc EXCEPT ![t] = "release_abort"]
            /\ UNCHANGED <<blockstack_db, blockstack_db_lastblock, blockstack_db_lock,
                           handles, targ>>
       ELSE /\ handles' = [handles EXCEPT ![blockstack_db] = CloseOf(@)]
            /\ blockstack_db' = None
            /\ blockstack_db_lastblock' = None
            /\ blockstack_db_lock' = None
            /\ tpc' = [tpc EXCEPT ![t] = "idle"]
            /\ targ' = [targ EXCEPT ![t] = NoArg]
            /\ UNCHANGED aborted

\* blockstack_db.close() raises inside release_readwrite_instance (its
\* self.db.commit() or self.db.close()): the exception leaves the call with
\* the lock held and the writer slot as it was
ReleaseRaise(t) ==
    /\ ~aborted
    /\ tpc[t] = "release"
    /\ ~ReleaseViolation(targ[t].db_inst, targ[t].block_number)
    /\ tpc' = [tpc EXCEPT ![t] = "idle"]
    /\ targ' = [targ EXCEPT ![t] = NoArg]
    /\ UNCHANGED <<blockstack_db, blockstack_db_lastblock, blockstack_db_lock,
                   handles, aborted>>

\* ---- get_readwrite_instance / get_readonly_instance / close -------------

\* get_readwrite_instance: a read/write handle "without the singleton check";
\* on a failed db_setup (and no successful restore) the handle is closed and
\* an exception is raised
GetReadwriteInstance(t, rc) ==
    /\ ~aborted
    /\ tpc[t] = "idle"
    /\ FreshId \in HandleIds
    /\ IF rc
       THEN /\ handles' = handles @@ (FreshId :> NewHandle(DISPOSITION_RW, FALSE))
       ELSE /\ handles' = handles @@ (FreshId :> CloseOf(NewHandle(DISPOSITION_RW, FALSE)))
    /\ UNCHANGED <<blockstack_db, blockstack_db_lastblock, blockstack_db_lock,
                   tpc, targ, aborted>>

\* get_readonly_instance: returns the handle, or None when db_setup fails
GetReadonlyInstance(t, rc) ==
    /\ ~aborted
    /\ tpc[t] = "idle"
    /\ FreshId \in HandleIds
    /\ handles' = handles @@ (FreshId :> NewHandle(DISPOSITION_RO, FALSE))
    /\ UNCHANGED <<blockstack_db, blockstack_db_lastblock, blockstack_db_lock,
                   tpc, targ, aborted>>

\* BlockstackDB.close called by the owner of a handle that was not borrowed
CloseHandle(t, h) ==
    /\ ~aborted
    /\ tpc[t] = "idle"
    /\ h \in Created
    /\ handles[h].open
    /\ ~handles[h].borrowed
    /\ handles' = [handles EXCEPT ![h] = CloseOf(@)]
    /\ UNCHANGED <<blockstack_db, blockstack_db_lastblock, blockstack_db_lock,
                   tpc, targ, aborted>>

\* ------------------------------------------------------------------------
\* Properties of the handle discipline
\* ------------------------------------------------------------------------

\* borrowed read/write handles that have not been released
Outstanding == {h \in Created : handles[h].borrowed /\ handles[h].open}

\* open handles with read/write disposition, however they were obtained
OpenReadWrite == {h \in Created : handles[h].disposition = DISPOSITION_RW /\ handles[h].open}

\* C1: for any interleaving of borrows and releases at most one borrowed
\* read-write handle is outstanding, it is the one in the writer slot, and a
\* thread that finds the writer slot occupied inside borrow_readwrite_instance
\* leaves the call only by aborting the process (it never returns a handle).
C1_SingleBorrowedWriter ==
    /\ [](/\ Cardinality(Outstanding) <= 1
          /\ \A h \in Outstanding : blockstack_db = h)
    /\ [][\A t \in Threads :
            (tpc[t] = "borrow" /\ blockstack_db # None /\ tpc'[t] # tpc[t])
                => (tpc'[t] = "borrow_abort" /\ aborted' /\ handles' = handles)]_hvars

\* C1 witness: a borrow was attempted while a borrowed handle was outstanding
\* and the process was aborted
C1_Witness ==
    /\ aborted
    /\ \E t \in Threads : tpc[t] = "borrow_abort"
    /\ Cardinality(Outstanding) = 1

\* C2: at most one open handle with read-write disposition exists process-wide,
\* counting the handles of get_readwrite_instance as well as the borrowed ones.
C2_SingleReadWriteHandle == Cardinality(OpenReadWrite) <= 1

\* C31: release_readwrite_instance returns True only for the handle of the
\* writer slot, borrowed and not yet released, with the block number its
\* borrow recorded; a release with an empty slot, another handle or another
\* block aborts the process.  After a release that returned True the writer
\* slot and its block are None, and a borrow that finds them so does not abort
\* and, its db set up, fills them with its handle and its block number.
C31_ReleaseMatchesBorrow ==
    /\ [][\A t \in Threads :
            (tpc[t] = "release" /\ tpc'[t] # tpc[t]) =>
               LET matches == /\ blockstack_db # None
                              /\ blockstack_db = targ[t].db_inst
                              /\ blockstack_db_lastblock = targ[t].block_number
                   returned == tpc'[t] = "idle" /\ blockstack_db_lock' = None
               IN /\ returned => /\ matches
                                 /\ blockstack_db \in Outstanding
                                 /\ ~aborted'
                                 /\ blockstack_db' = None
                                 /\ blockstack_db_lastblock' = None
                                 /\ ~handles'[blockstack_db].open
                  /\ ~matches => aborted' /\ tpc'[t] = "release_abort"]_hvars
    /\ [][\A t \in Threads :
            (tpc[t] = "borrow" /\ blockstack_db = None /\ tpc'[t] # tpc[t]) =>
               /\ ~aborted'
               /\ blockstack_db' # None =>
                     /\ blockstack_db' \in Outstanding'
                     /\ blockstack_db_lastblock' = targ[t].block_number]_hvars
    /\ [](blockstack_db = None <=> blockstack_db_lastblock = None)

\* a handle was borrowed, released and the next borrow gave another handle
C31_Witness ==
    /\ ~aborted
    /\ blockstack_db # None
    /\ blockstack_db \in Outstanding
    /\ \E h \in Created : h # blockstack_db /\ handles[h].borrowed /\ ~handles[h].open

\* C36: the writer mutex is never left held: it is held only by a thread
\* that is inside borrow_readwrite_instance or release_readwrite_instance, or
\* by the thread that aborted the process.
C36_LockNeverLeftHeld ==
    blockstack_db_lock # None =>
        tpc[blockstack_db_lock] \in {"borrow", "release", "borrow_abort", "release_abort"}

(***************************************************************************)
(* Part II : the per-block operation pipeline over the name database.      *)
(*                                                                         *)
(* An engine is a record e with the fields                                 *)
(*   preorders, name_records, namespaces : the tables as the writer's      *)
(*        connection sees them (sets of rows)                              *)
(*   committed  : the tables as of the last db.commit(), which is what     *)
(*        every other (read-only) connection sees                          *)
(*   boundary   : the tables as they were when the last block was finished *)
(*   collisions : self.collisions, history_id_key -> {<<block_id, id>>}    *)
(*   lastblock  : the last block that was processed completely             *)
(*   phase, vtxindex, checked_ops, ncommitted : the position inside the    *)
(*        block that is being processed (block lastblock + 1)              *)
(*   block_ops  : the consensus records returned by commit_operation for   *)
(*        the ops of this block                                            *)
(*   snapshots  : the per-block <<block, ops hash>> entries                *)
(*   aborted    : the process was aborted                                  *)
(***************************************************************************)

\* ------------------------------------------------------------------------
\* Bounds of the pipeline model
\* ------------------------------------------------------------------------
NumNames == 2
NumAddrs == 2
MaxBlock == 3
MaxTx == 2

\* the namespace lifetime declared by the NAMESPACE_REVEAL of the scenarios
NAMESPACE_LIFETIME == 1
\* BLOCKSTACK_EPOCH_*_NAMESPACE_LIFETIME_MULTIPLIER of the test profile
NAMESPACE_LIFETIME_MULTIPLIER == 1

NamePool == <<"foo.test", "bar.test", "baz.test", "qux.test">>
Names == {NamePool[i] : i \in 1..NumNames}
NamespaceIds == {"test"}
Addrs == 1..NumAddrs

\* virtualchain.make_payment_script(addr)
make_payment_script(addr) == <<"p2pkh", addr>>
Scripts == {make_payment_script(a) : a \in Addrs}

\* scripts.get_namespace_from_name: every name of the pool is in "test"
get_namespace_from_name(name) == "test"

\* hashing.hash_name(name, sender_script_pubkey, register_addr): the digest is
\* modelled by its preimage (no two preimages share a digest)
hash_name(name, sender, register_addr) == <<name, sender, register_addr>>

NoRec == [op |-> "NONE"]
NoHash == <<>>
NoName == ""

OPCODE_PREORDER_OPS == {"NAME_PREORDER", "NAMESPACE_PREORDER"}
OPCODE_NAME_STATE_CREATIONS == {"NAME_REGISTRATION", "NAME_IMPORT"}
OPCODE_NAMESPACE_STATE_CREATIONS == {"NAMESPACE_REVEAL"}
OPCODE_CREATION_OPS == {"NAME_REGISTRATION", "NAME_IMPORT", "NAMESPACE_REVEAL"}
OPCODE_TRANSITION_OPS ==
    {"NAME_RENEWAL", "NAME_UPDATE", "NAME_TRANSFER", "NAME_REVOKE", "NAMESPACE_READY"}

\* op_get_opcode_name(op['op']): the opcode family; a renewal carries the
\* op byte of a registration
op_get_opcode_name(opcode) ==
    IF opcode = "NAME_RENEWAL" THEN "NAME_REGISTRATION" ELSE opcode

\* get_epoch_namespace_lifetime_multiplier(block, namespace_id)
get_epoch_namespace_lifetime_multiplier(block, namespace_id) ==
    NAMESPACE_LIFETIME_MULTIPLIER

\* the address a script pays to
AddrOf(script) == script[2]

\* the transactions a block may carry; a preorder or registration names the
\* sender's own address as the recipient.  A renewal is a registration on the
\* wire (EXTRACT_METHODS gives both extract_registration): no transaction is
\* parsed as a NAME_RENEWAL
TxOps ==
    {[opcode |-> o, name |-> n, namespace_id |-> get_namespace_from_name(n),
      sender |-> s, recipient |-> AddrOf(s), paid |-> p, lifetime |-> 0] :
        o \in {"NAME_PREORDER", "NAME_REGISTRATION"}, n \in Names, s \in Scripts, p \in BOOLEAN}
    \cup
    {[opcode |-> o, name |-> NoName, namespace_id |-> ns,
      sender |-> s, recipient |-> AddrOf(s), paid |-> TRUE, lifetime |-> NAMESPACE_LIFETIME] :
        o \in {"NAMESPACE_PREORDER", "NAMESPACE_REVEAL", "NAMESPACE_READY"},
        ns \in NamespaceIds, s \in Scripts}

EmptyTables == [preorders |-> {}, name_records |-> {}, namespaces |-> {}, history |-> {}]

\* ---- the import keychain and its cache file (namedb.py) -------------------

\* a cache file <namespace_id>.keychain of the working directory: whether it
\* exists, whether it can be read, and the addresses on its lines
NoFile == [exists |-> FALSE, readable |-> FALSE, lines |-> {}]
CachedFile(child_addrs) == [exists |-> TRUE, readable |-> TRUE, lines |-> child_addrs]
UnreadableFile == [exists |-> TRUE, readable |-> FALSE, lines |-> {}]

\* the working directory without any keychain cache
EmptyDir == [namespace_id \in NamespaceIds |-> NoFile]

\* NAME_IMPORT_KEYRING_SIZE: the children derived from a reveal public key
NAME_IMPORT_KEYRING_SIZE == 1

\* public_keychain.child(i).address(): the address of the i-th child of the
\* key that pays to addr; no child has the address of a wallet or of another
\* key's child
ChildAddress(addr, i) == 100 * addr + i

\* what build_import_keychain and load_import_keychain return: the list of
\* addresses (None when there is no cache), the directory afterwards, and
\* whether os.abort() was called
KeychainResult(child_addrs, is_none, dir, fatal) ==
    [child_addrs |-> child_addrs, is_none |-> is_none, dir |-> dir, fatal |-> fatal]

\* BlockstackDB.build_import_keychain(keychain_dir, namespace_id, pubkey_hex):
\* the cached lines when the cache can be read; else the children of the key
\* and the key's own address, written to the cache (a cache that cannot be
\* read cannot be written either: the failure is logged)
build_import_keychain(keychain_dir, namespace_id, pubkey_addr) ==
    LET cached_keychain == keychain_dir[namespace_id]
        child_addrs == {ChildAddress(pubkey_addr, i) : i \in 0..(NAME_IMPORT_KEYRING_SIZE - 1)}
                       \cup {pubkey_addr}
    IN IF cached_keychain.exists /\ cached_keychain.readable
       THEN KeychainResult(cached_keychain.lines, FALSE, keychain_dir, FALSE)
       ELSE IF cached_keychain.exists
       THEN KeychainResult(child_addrs, FALSE, keychain_dir, FALSE)
       ELSE KeychainResult(child_addrs, FALSE,
                           [keychain_dir EXCEPT ![namespace_id] = CachedFile(child_addrs)],
                           FALSE)

\* BlockstackDB.load_import_keychain(working_dir, namespace_id): the cached
\* lines, None without a cache, os.abort() when the cache cannot be read
load_import_keychain(working_dir, namespace_id) ==
    LET cached_keychain == working_dir[namespace_id]
    IN IF cached_keychain.exists
       THEN IF cached_keychain.readable
            THEN KeychainResult(cached_keychain.lines, FALSE, working_dir, FALSE)
            ELSE KeychainResult({}, TRUE, working_dir, TRUE)
       ELSE KeychainResult({}, TRUE, working_dir, FALSE)
EmptyCollisions == [preorder_hash |-> {}, name |-> {}, namespace_id |-> {}]

\* the engine over a freshly created database
EmptyEngine ==
    [preorders |-> {}, name_records |-> {}, namespaces |-> {}, history |-> {},
     committed |-> EmptyTables,
     boundary |-> EmptyTables,
     collisions |-> EmptyCollisions,
     lastblock |-> 0,
     phase |-> "check", vtxindex |-> 0, checked_ops |-> <<>>, ncommitted |-> 0,
     block_ops |-> <<>>, snapshots |-> <<>>,
     working_dir |-> EmptyDir,
     disposition |-> DISPOSITION_RW,
     aborted |-> FALSE]

\* the op dict the extractor yields for a transaction at vtxindex; the
\* validators fill in preorder_hash and preorder, the collision check sets
\* collided (__collided__) and collided_history_id_key
NameOp(tx, vtxindex) ==
    [opcode |-> tx.opcode, name |-> tx.name, namespace_id |-> tx.namespace_id,
     sender |-> tx.sender, recipient |-> tx.recipient, paid |-> tx.paid,
     lifetime |-> tx.lifetime,
     name_consensus_hash |-> IF "name_consensus_hash" \in DOMAIN tx
                             THEN tx.name_consensus_hash ELSE NoHash,
     update_hash |-> IF "update_hash" \in DOMAIN tx THEN tx.update_hash ELSE NoHash,
     consensus_hash |-> NoHash,
     vtxindex |-> vtxindex, preorder_hash |-> NoHash, preorder |-> NoRec,
     collided |-> FALSE, collided_history_id_key |-> "", canonical |-> ""]

Tables(e) == [preorders |-> e.preorders, name_records |-> e.name_records,
              namespaces |-> e.namespaces, history |-> e.history]

\* ---- the table layer (db.py) --------------------------------------------

\* namedb_get_namespace_ready(cur, namespace_id)
namedb_get_namespace_ready(e, namespace_id) ==
    LET rows == {r \in e.namespaces : r.namespace_id = namespace_id /\ r.op = "NAMESPACE_READY"}
    IN IF rows = {} THEN NoRec ELSE CHOOSE r \in rows : TRUE

\* namedb_get_namespace_reveal(cur, namespace_id, block)
namedb_get_namespace_reveal(e, namespace_id, block) ==
    LET rows == {r \in e.namespaces : r.namespace_id = namespace_id /\ r.op = "NAMESPACE_REVEAL"}
    IN IF rows = {} THEN NoRec ELSE CHOOSE r \in rows : TRUE

\* namedb_get_namespace(cur, namespace_id, block): revealed or ready
namedb_get_namespace(e, namespace_id, block) ==
    LET rows == {r \in e.namespaces : r.namespace_id = namespace_id}
    IN IF rows = {} THEN NoRec ELSE CHOOSE r \in rows : TRUE

\* whether a name row is expired at a block: names of a namespace that is not
\* READY do not expire; in a READY namespace lookups fail from
\* max(ready_block, last_renewed) + lifetime * multiplier on
NameExpiredAt(e, rec, block) ==
    LET ns == namedb_get_namespace(e, rec.namespace_id, block)
    IN /\ ns # NoRec
       /\ ns.op = "NAMESPACE_READY"
       /\ block >= (IF ns.ready_block > rec.last_renewed THEN ns.ready_block ELSE rec.last_renewed)
                   + ns.lifetime * get_epoch_namespace_lifetime_multiplier(block, rec.namespace_id)

\* namedb_get_name(cur, name, block, include_expired)
namedb_get_name(e, name, block, include_expired) ==
    LET rows == {r \in e.name_records :
                    r.name = name /\ (include_expired \/ ~NameExpiredAt(e, r, block))}
    IN IF rows = {} THEN NoRec
       ELSE CHOOSE r \in rows : \A q \in rows : q.block_number <= r.block_number

\* namedb_get_name_preorder(db, preorder_hash, block)
namedb_get_name_preorder(e, preorder_hash, block) ==
    LET rows == {r \in e.preorders : r.preorder_hash = preorder_hash /\ r.op = "NAME_PREORDER"}
    IN IF rows = {} THEN NoRec ELSE CHOOSE r \in rows : TRUE

\* namedb_get_namespace_preorder(db, namespace_id_hash, block)
namedb_get_namespace_preorder(e, preorder_hash, block) ==
    LET rows == {r \in e.preorders : r.preorder_hash = preorder_hash /\ r.op = "NAMESPACE_PREORDER"}
    IN IF rows = {} THEN NoRec ELSE CHOOSE r \in rows : TRUE

\* namedb_get_names_by_sender(cur, sender, current_block): the names the
\* sender owns (not expired, not revoked)
namedb_get_names_by_sender(e, sender, block) ==
    {r.name : r \in {q \in e.name_records :
                        /\ q.sender = sender
                        /\ ~q.revoked
                        /\ ~NameExpiredAt(e, q, block)}}

\* ---- consensus hashes -----------------------------------------------------

\* the ops hash of a block: the digest of the ordered consensus records, modelled
\* by its preimage
get_block_ops_hash(e, block) == e.snapshots[block]

\* the consensus hash of a block: the digest of the block's ops hash and of the
\* consensus hashes 1, 2, 4, 8, ... blocks back
RECURSIVE get_consensus_at(_, _)
get_consensus_at(e, block) ==
    <<get_block_ops_hash(e, block),
      [k \in {j \in 0..3 : block - 2^j >= 1} |-> get_consensus_at(e, block - 2^k)]>>

\* the consensus hash of a block, None for a block that has none
ConsensusHashAt(e, block) ==
    IF block \in 1..Len(e.snapshots) THEN get_consensus_at(e, block) ELSE NoHash

\* virtualchain_hooks.get_valid_transaction_window()
VALID_TRANSACTION_WINDOW == 2
get_valid_transaction_window == VALID_TRANSACTION_WINDOW

\* hash256_trunc128(str(name) + consensus_hash): the digest is modelled by its
\* preimage; consensus hashes have one length, so no two preimages share a
\* concatenation
hash256_trunc128(name, consensus_hash) == <<name, consensus_hash>>

\* ---- queries of BlockstackDB (namedb.py) --------------------------------

\* BlockstackDB.get_namespace: the READY namespace record, or None
get_namespace(e, namespace_id) == namedb_get_namespace_ready(e, namespace_id)

\* BlockstackDB.get_namespace_reveal: the record while it is being revealed
get_namespace_reveal(e, namespace_id) ==
    namedb_get_namespace_reveal(e, namespace_id, e.lastblock)

\* BlockstackDB.get_name(name, lastblock, include_expired)
get_name(e, name, lastblock, include_expired) ==
    namedb_get_name(e, name, lastblock, include_expired)

\* a get_name_preorder that does not look whether the name is registered
get_name_preorder_AnyName(e, name, sender, register_addr) ==
    LET namespace_id == get_namespace_from_name(name)
        namespace == get_namespace(e, namespace_id)
        preorder_hash == hash_name(name, sender, register_addr)
        preorder == namedb_get_name_preorder(e, preorder_hash, e.lastblock)
        mult == get_epoch_namespace_lifetime_multiplier(e.lastblock, namespace_id)
    IN IF namespace = NoRec THEN NoRec
       ELSE IF preorder = NoRec THEN NoRec
       ELSE IF preorder.block_number + namespace.lifetime * mult <= e.lastblock THEN NoRec
       ELSE preorder

\* a get_name_preorder that does not look at the age of the preorder
get_name_preorder_AnyAge(e, name, sender, register_addr) ==
    LET name_rec == get_name(e, name, e.lastblock, FALSE)
        namespace_id == get_namespace_from_name(name)
        namespace == get_namespace(e, namespace_id)
        preorder_hash == hash_name(name, sender, register_addr)
        preorder == namedb_get_name_preorder(e, preorder_hash, e.lastblock)
    IN IF name_rec # NoRec THEN NoRec
       ELSE IF namespace = NoRec THEN NoRec
       ELSE preorder

\* BlockstackDB.get_name_preorder(name, sender_script_pubkey, register_addr)
get_name_preorder(e, name, sender, register_addr) ==
    LET name_rec == get_name(e, name, e.lastblock, FALSE)
        namespace_id == get_namespace_from_name(name)
        namespace == get_namespace(e, namespace_id)
        preorder_hash == hash_name(name, sender, register_addr)
        preorder == namedb_get_name_preorder(e, preorder_hash, e.lastblock)
        mult == get_epoch_namespace_lifetime_multiplier(e.lastblock, namespace_id)
    IN IF name_rec # NoRec THEN NoRec
       ELSE IF namespace = NoRec THEN NoRec
       ELSE IF preorder = NoRec THEN NoRec
       ELSE IF preorder.block_number + namespace.lifetime * mult <= e.lastblock THEN NoRec
       ELSE preorder

\* BlockstackDB.get_namespace_preorder(namespace_id_hash)
get_namespace_preorder(e, namespace_id_hash) ==
    namedb_get_namespace_preorder(e, namespace_id_hash, e.lastblock)

\* BlockstackDB.get_name_owner: the sender script of the name, or None
get_name_owner(e, name) ==
    LET name_rec == get_name(e, name, e.lastblock, FALSE)
    IN IF name_rec = NoRec THEN NoHash ELSE name_rec.sender

\* an is_name_registered that takes a revoked name for registered
is_name_registered_IgnoreRevoked(e, name) ==
    get_name(e, name, e.lastblock, FALSE) # NoRec

\* BlockstackDB.is_name_registered: registered, not revoked, not expired
is_name_registered(e, name) ==
    LET name_rec == get_name(e, name, e.lastblock, FALSE)
    IN IF name_rec = NoRec THEN FALSE
       ELSE IF name_rec.revoked THEN FALSE
       ELSE TRUE

\* BlockstackDB.is_name_owner
is_name_owner(e, name, sender) ==
    IF ~is_name_registered(e, name) THEN FALSE
    ELSE get_name_owner(e, name) = sender

\* the (name, consensus hash) pair a lookup by hash returns
NameAndHash(name, consensus_hash) == [name |-> name, consensus_hash |-> consensus_hash]

\* a get_name_from_name_consensus_hash that tries the consensus hash of every block
get_name_from_name_consensus_hash_AnyBlock(e, name_consensus_hash, sender_script_pubkey, block_id) ==
    LET names == namedb_get_names_by_sender(e, sender_script_pubkey, e.lastblock)
        possible_consensus_hashes ==
            {ConsensusHashAt(e, i) : i \in 1..block_id} \ {NoHash}
        found == {nh \in {NameAndHash(name, ch) : name \in names, ch \in possible_consensus_hashes} :
                     hash256_trunc128(nh.name, nh.consensus_hash) = name_consensus_hash}
    IN IF names = {} THEN NameAndHash(NoName, NoHash)
       ELSE IF found = {} THEN NameAndHash(NoName, NoHash)
       ELSE CHOOSE nh \in found : TRUE

\* BlockstackDB.get_name_from_name_consensus_hash: the first owned name and
\* consensus hash of the window block_id - window .. block_id that hash to
\* name_consensus_hash, or (None, None)
get_name_from_name_consensus_hash(e, name_consensus_hash, sender_script_pubkey, block_id) ==
    LET names == namedb_get_names_by_sender(e, sender_script_pubkey, e.lastblock)
        possible_consensus_hashes ==
            {ConsensusHashAt(e, i) :
                i \in (block_id - get_valid_transaction_window)..block_id} \ {NoHash}
        found == {nh \in {NameAndHash(name, ch) : name \in names, ch \in possible_consensus_hashes} :
                     hash256_trunc128(nh.name, nh.consensus_hash) = name_consensus_hash}
    IN IF names = {} THEN NameAndHash(NoName, NoHash)
       ELSE IF found = {} THEN NameAndHash(NoName, NoHash)
       ELSE CHOOSE nh \in found : TRUE

\* BlockstackDB.is_new_preorder
is_new_preorder(e, preorder_hash) ==
    namedb_get_name_preorder(e, preorder_hash, e.lastblock) = NoRec

\* BlockstackDB.is_new_namespace_preorder
is_new_namespace_preorder(e, namespace_id_hash) ==
    namedb_get_namespace_preorder(e, namespace_id_hash, e.lastblock) = NoRec

\* BlockstackDB.is_namespace_ready
is_namespace_ready(e, namespace_id) == get_namespace(e, namespace_id) # NoRec

\* an is_namespace_revealed that takes any record of the namespace for a reveal
is_namespace_revealed_AnyOp(e, namespace_id) ==
    namedb_get_namespace(e, namespace_id, e.lastblock) # NoRec

\* BlockstackDB.is_namespace_revealed
is_namespace_revealed(e, namespace_id) == get_namespace_reveal(e, namespace_id) # NoRec

\* BlockstackDB.get_namespace_op_state: the namespace record, revealed or ready
get_namespace_op_state(e, namespace_id, block_number) ==
    namedb_get_namespace(e, namespace_id, block_number)

\* epoch_N_namespace_lifetime_grace_period of the epoch in force
NAMESPACE_LIFETIME_GRACE_PERIOD == 1

\* get_epoch_namespace_lifetime_grace_period(block, namespace_id)
get_epoch_namespace_lifetime_grace_period(block, namespace_id) ==
    NAMESPACE_LIFETIME_GRACE_PERIOD

\* a get_name_deadlines whose expire block is the block the owner loses the name at
get_name_deadlines_OwnerLoses(name_rec, namespace_rec, block_number) ==
    IF namespace_rec.op # "NAMESPACE_READY" THEN NoRec
    ELSE LET namespace_id == namespace_rec.namespace_id
             namespace_lifetime_multiplier ==
                 get_epoch_namespace_lifetime_multiplier(block_number, namespace_id)
             namespace_lifetime_grace_period ==
                 get_epoch_namespace_lifetime_grace_period(block_number, namespace_id)
             expire_block ==
                 (IF namespace_rec.ready_block > name_rec.last_renewed
                  THEN namespace_rec.ready_block ELSE name_rec.last_renewed)
                 + namespace_rec.lifetime * namespace_lifetime_multiplier
                 + namespace_lifetime_grace_period
             renewal_deadline == expire_block + namespace_lifetime_grace_period
         IN [expire_block |-> expire_block, renewal_deadline |-> renewal_deadline]

\* BlockstackDB.get_name_deadlines: the block lookups fail from and the block
\* the owner may renew until; None when the namespace is not ready
get_name_deadlines(name_rec, namespace_rec, block_number) ==
    IF namespace_rec.op # "NAMESPACE_READY" THEN NoRec
    ELSE LET namespace_id == namespace_rec.namespace_id
             namespace_lifetime_multiplier ==
                 get_epoch_namespace_lifetime_multiplier(block_number, namespace_id)
             namespace_lifetime_grace_period ==
                 get_epoch_namespace_lifetime_grace_period(block_number, namespace_id)
             expire_block ==
                 (IF namespace_rec.ready_block > name_rec.last_renewed
                  THEN namespace_rec.ready_block ELSE name_rec.last_renewed)
                 + namespace_rec.lifetime * namespace_lifetime_multiplier
             renewal_deadline == expire_block + namespace_lifetime_grace_period
         IN [expire_block |-> expire_block, renewal_deadline |-> renewal_deadline]

\* an is_name_expired that looks expired records up as well
is_name_expired_IncludeExpired(e, name, block_number) ==
    namedb_get_name(e, name, block_number, TRUE) = NoRec

\* BlockstackDB.is_name_expired
is_name_expired(e, name, block_number) ==
    namedb_get_name(e, name, block_number, FALSE) = NoRec

\* an is_name_in_grace_period that looks the name up among the expired records too
is_name_in_grace_period_IncludeExpired(e, name, block_number) ==
    LET name_rec == namedb_get_name(e, name, block_number, TRUE)
        namespace_id == get_namespace_from_name(name)
        namespace_rec == namedb_get_namespace(e, namespace_id, block_number)
    IN IF name_rec = NoRec THEN FALSE
       ELSE IF namespace_rec = NoRec THEN FALSE
       ELSE LET grace_info == get_name_deadlines(name_rec, namespace_rec, block_number)
            IN IF grace_info = NoRec THEN FALSE
               ELSE /\ block_number >= grace_info.expire_block
                    /\ block_number < grace_info.renewal_deadline

\* BlockstackDB.is_name_in_grace_period
is_name_in_grace_period(e, name, block_number) ==
    LET name_rec == namedb_get_name(e, name, block_number, FALSE)
        namespace_id == get_namespace_from_name(name)
        namespace_rec == namedb_get_namespace(e, namespace_id, block_number)
    IN IF name_rec = NoRec THEN FALSE
       ELSE IF namespace_rec = NoRec THEN FALSE
       ELSE LET grace_info == get_name_deadlines(name_rec, namespace_rec, block_number)
            IN IF grace_info = NoRec THEN FALSE
               ELSE /\ block_number >= grace_info.expire_block
                    /\ block_number < grace_info.renewal_deadline

\* ---- collision detection (namedb.py) ------------------------------------

\* the value an op holds under a history id key
OpHistoryId(op, history_id_key) ==
    IF history_id_key = "preorder_hash" THEN op.preorder_hash
    ELSE IF history_id_key = "name" THEN op.name
    ELSE op.namespace_id

\* BlockstackDB.nameop_set_collided
nameop_set_collided(nameop, history_id_key, history_id) ==
    [nameop EXCEPT !.collided = TRUE,
                   !.collided_history_id_key = history_id_key]

\* BlockstackDB.nameop_is_collided
nameop_is_collided(nameop) == nameop.collided

\* a collision check that looks at the ids recorded for every block
CollisionSeen_AnyBlock(collision_state, history_id_key, history_id, block_id) ==
    \E b \in 0..(block_id + MaxBlock) : <<b, history_id>> \in collision_state[history_id_key]

\* check_collision_state: was history_id recorded under history_id_key at block_id?
CollisionSeen(collision_state, history_id_key, history_id, block_id) ==
    <<block_id, history_id>> \in collision_state[history_id_key]

\* a loop that flags every earlier op of an affected opcode
MarkCollided_AnyId(checked_ops, history_id_key, history_id, affected_opcodes) ==
    [i \in DOMAIN checked_ops |->
        IF op_get_opcode_name(checked_ops[i].opcode) \in affected_opcodes
        THEN nameop_set_collided(checked_ops[i], history_id_key, history_id)
        ELSE checked_ops[i]]

\* check_collision_state: the loop that flags the ops checked earlier
MarkCollided(checked_ops, history_id_key, history_id, affected_opcodes) ==
    [i \in DOMAIN checked_ops |->
        IF /\ op_get_opcode_name(checked_ops[i].opcode) \in affected_opcodes
           /\ OpHistoryId(checked_ops[i], history_id_key) = history_id
        THEN nameop_set_collided(checked_ops[i], history_id_key, history_id)
        ELSE checked_ops[i]]

\* BlockstackDB.check_collision_state: <<rc, collision_state, checked_ops>> after the call
check_collision_state(collision_state, history_id_key, history_id, block_id, checked_ops, affected_opcodes) ==
    IF CollisionSeen(collision_state, history_id_key, history_id, block_id)
    THEN [rc |-> TRUE,
          collision_state |-> collision_state,
          checked_ops |-> MarkCollided(checked_ops, history_id_key, history_id, affected_opcodes)]
    ELSE [rc |-> FALSE,
          collision_state |-> [collision_state EXCEPT
                                  ![history_id_key] = @ \cup {<<block_id, history_id>>}],
          checked_ops |-> checked_ops]

\* BlockstackDB.check_preorder_collision
check_preorder_collision(collision_state, preorder_hash, block_id, checked_ops) ==
    check_collision_state(collision_state, "preorder_hash", preorder_hash, block_id,
                          checked_ops, OPCODE_PREORDER_OPS)

\* BlockstackDB.check_name_collision
check_name_collision(collision_state, name, block_id, checked_ops) ==
    check_collision_state(collision_state, "name", name, block_id,
                          checked_ops, OPCODE_NAME_STATE_CREATIONS)

\* BlockstackDB.check_namespace_collision
check_namespace_collision(collision_state, namespace_id, block_id, checked_ops) ==
    check_collision_state(collision_state, "namespace_id", namespace_id, block_id,
                          checked_ops, OPCODE_NAMESPACE_STATE_CREATIONS)

\* BlockstackDB.find_collisions with nameop_put_collision: history_id_key -->
\* the ids of the flagged ops (an op is flagged under the key and with the id
\* it holds under that key)
find_collisions(checked_ops) ==
    [k \in {"preorder_hash", "name", "namespace_id"} |->
        {OpHistoryId(checked_ops[i], k) :
            i \in {j \in 1..Len(checked_ops) :
                      /\ nameop_is_collided(checked_ops[j])
                      /\ checked_ops[j].collided_history_id_key = k}}]

\* a put_collisions that installs an empty collision state for the block
put_collisions_Empty(collision_state, block_id, collisions) ==
    [k \in DOMAIN collision_state |-> {c \in collision_state[k] : c[1] # block_id}]

\* BlockstackDB.put_collisions(block_id, collisions):
\* self.collisions[block_id] = copy.deepcopy(collisions)
put_collisions(collision_state, block_id, collisions) ==
    [k \in DOMAIN collision_state |->
        {c \in collision_state[k] : c[1] # block_id}
           \cup {<<block_id, id>> : id \in collisions[k]}]

\* BlockstackDB.clear_collisions(block_id)
clear_collisions(collision_state, block_id) ==
    [k \in DOMAIN collision_state |-> {c \in collision_state[k] : c[1] # block_id}]

\* ---- validators (operations/preorder.py, register.py, namespace*.py) ----
\* A validator yields [rc, opcode, nameop, collision_state, checked_ops]: its
\* verdict, the opcode the op carries afterwards, the op as it left it, and the
\* collision state and earlier ops as the collision check left them.

VReject(e, nameop, checked_ops) ==
    [rc |-> FALSE, opcode |-> nameop.opcode, nameop |-> nameop,
     collision_state |-> e.collisions, checked_ops |-> checked_ops]

VCollide(nameop, c) ==
    [rc |-> ~c.rc, opcode |-> nameop.opcode, nameop |-> nameop,
     collision_state |-> c.collision_state, checked_ops |-> c.checked_ops]

\* preorder.check
check_preorder(e, nameop, block_id, checked_ops) ==
    LET h == hash_name(nameop.name, nameop.sender, nameop.recipient)
        ns == nameop.namespace_id
    IN IF ~(is_namespace_ready(e, ns) \/ is_namespace_revealed(e, ns)) THEN VReject(e, nameop, checked_ops)
       ELSE IF ~is_new_preorder(e, h) THEN VReject(e, nameop, checked_ops)
       ELSE IF ~nameop.paid THEN VReject(e, nameop, checked_ops)
       ELSE VCollide([nameop EXCEPT !.preorder_hash = h],
                     check_preorder_collision(e.collisions, h, block_id, checked_ops))

\* register.check_register
check_register(e, nameop, block_id, checked_ops) ==
    LET preorder == get_name_preorder(e, nameop.name, nameop.sender, nameop.recipient)
    IN IF is_name_owner(e, nameop.name, nameop.sender)
       THEN \* a registration of a name its sender owns is a renewal
            [rc |-> TRUE, opcode |-> "NAME_RENEWAL",
             nameop |-> [nameop EXCEPT !.opcode = "NAME_RENEWAL"],
             collision_state |-> e.collisions, checked_ops |-> checked_ops]
       ELSE IF preorder = NoRec THEN VReject(e, nameop, checked_ops)
       ELSE VCollide([nameop EXCEPT !.preorder_hash = preorder.preorder_hash,
                                    !.preorder = preorder],
                     check_name_collision(e.collisions, nameop.name, block_id, checked_ops))

\* register.check_renewal
check_renewal(e, nameop, block_id, checked_ops) ==
    IF ~is_name_owner(e, nameop.name, nameop.sender) THEN VReject(e, nameop, checked_ops)
    ELSE IF ~nameop.paid THEN VReject(e, nameop, checked_ops)
    ELSE [rc |-> TRUE, opcode |-> nameop.opcode, nameop |-> nameop,
          collision_state |-> e.collisions, checked_ops |-> checked_ops]

\* namespacepreorder.check
check_namespace_preorder(e, nameop, block_id, checked_ops) ==
    LET h == hash_name(nameop.namespace_id, nameop.sender, nameop.recipient)
        ns == nameop.namespace_id
    IN IF is_namespace_ready(e, ns) \/ is_namespace_revealed(e, ns) THEN VReject(e, nameop, checked_ops)
       ELSE IF ~is_new_namespace_preorder(e, h) THEN VReject(e, nameop, checked_ops)
       ELSE VCollide([nameop EXCEPT !.preorder_hash = h],
                     check_preorder_collision(e.collisions, h, block_id, checked_ops))

\* namespacereveal.check
check_namespace_reveal(e, nameop, block_id, checked_ops) ==
    LET h == hash_name(nameop.namespace_id, nameop.sender, nameop.recipient)
        ns == nameop.namespace_id
    IN IF is_namespace_ready(e, ns) \/ is_namespace_revealed(e, ns) THEN VReject(e, nameop, checked_ops)
       ELSE IF get_namespace_preorder(e, h) = NoRec THEN VReject(e, nameop, checked_ops)
       ELSE VCollide([nameop EXCEPT !.preorder_hash = h,
                                    !.preorder = get_namespace_preorder(e, h)],
                     check_namespace_collision(e.collisions, ns, block_id, checked_ops))

\* namespaceready.check
check_namespace_ready(e, nameop, block_id, checked_ops) ==
    LET reveal == get_namespace_reveal(e, nameop.namespace_id)
    IN IF reveal = NoRec THEN VReject(e, nameop, checked_ops)
       ELSE IF nameop.sender # make_payment_script(reveal.recipient) THEN VReject(e, nameop, checked_ops)
       ELSE [rc |-> TRUE, opcode |-> nameop.opcode, nameop |-> nameop,
             collision_state |-> e.collisions, checked_ops |-> checked_ops]

\* nameimport.check: the namespace is revealed and the sender's address is in
\* its import keychain, loaded from the cache or built from the revealer's key;
\* the result carries the working directory afterwards and whether the process
\* was aborted
check_name_import(e, nameop, block_id, checked_ops) ==
    LET namespace == get_namespace_reveal(e, nameop.namespace_id)
    IN IF namespace = NoRec THEN VReject(e, nameop, checked_ops)
       ELSE LET loaded == load_import_keychain(e.working_dir, nameop.namespace_id)
                kc == IF loaded.is_none /\ ~loaded.fatal
                      THEN build_import_keychain(e.working_dir, nameop.namespace_id,
                                                 namespace.recipient)
                      ELSE loaded
                rc == ~kc.fatal /\ AddrOf(nameop.sender) \in kc.child_addrs
            IN [rc |-> rc, opcode |-> nameop.opcode, nameop |-> nameop,
                collision_state |-> e.collisions, checked_ops |-> checked_ops,
                working_dir |-> kc.dir, fatal |-> kc.fatal]

VAccept(e, nameop, checked_ops) ==
    [rc |-> TRUE, opcode |-> nameop.opcode, nameop |-> nameop,
     collision_state |-> e.collisions, checked_ops |-> checked_ops]

\* update.check: the sender owns the name its hash is bound to, with a recent
\* consensus hash; the op gets the name and the consensus hash
check_update(e, nameop, block_id, checked_ops) ==
    LET r == get_name_from_name_consensus_hash(e, nameop.name_consensus_hash,
                                               nameop.sender, block_id)
    IN IF r.name = NoName THEN VReject(e, nameop, checked_ops)
       ELSE IF ~is_name_registered(e, r.name) THEN VReject(e, nameop, checked_ops)
       ELSE IF ~is_name_owner(e, r.name, nameop.sender) THEN VReject(e, nameop, checked_ops)
       ELSE VAccept(e, [nameop EXCEPT !.name = r.name,
                                      !.namespace_id = get_namespace_from_name(r.name),
                                      !.consensus_hash = r.consensus_hash], checked_ops)

\* transfer.check: as an update; a revoked name is not transferred
check_transfer(e, nameop, block_id, checked_ops) ==
    LET r == get_name_from_name_consensus_hash(e, nameop.name_consensus_hash,
                                               nameop.sender, block_id)
    IN IF r.name = NoName THEN VReject(e, nameop, checked_ops)
       ELSE IF ~is_name_registered(e, r.name) THEN VReject(e, nameop, checked_ops)
       ELSE IF ~is_name_owner(e, r.name, nameop.sender) THEN VReject(e, nameop, checked_ops)
       ELSE VAccept(e, [nameop EXCEPT !.name = r.name,
                                      !.namespace_id = get_namespace_from_name(r.name),
                                      !.consensus_hash = r.consensus_hash], checked_ops)

\* revoke.check: the sender owns the name
check_revoke(e, nameop, block_id, checked_ops) ==
    IF ~is_name_owner(e, nameop.name, nameop.sender) THEN VReject(e, nameop, checked_ops)
    ELSE VAccept(e, nameop, checked_ops)

\* CHECK_METHODS[opcode](state_engine, nameop, block_id, checked_ops)
CHECK_METHODS(opcode, e, nameop, block_id, checked_ops) ==
    CASE opcode = "NAME_PREORDER" -> check_preorder(e, nameop, block_id, checked_ops)
      [] opcode = "NAME_REGISTRATION" -> check_register(e, nameop, block_id, checked_ops)
      [] opcode = "NAME_RENEWAL" -> check_renewal(e, nameop, block_id, checked_ops)
      [] opcode = "NAMESPACE_PREORDER" -> check_namespace_preorder(e, nameop, block_id, checked_ops)
      [] opcode = "NAMESPACE_REVEAL" -> check_namespace_reveal(e, nameop, block_id, checked_ops)
      [] opcode = "NAMESPACE_READY" -> check_namespace_ready(e, nameop, block_id, checked_ops)
      [] opcode = "NAME_UPDATE" -> check_update(e, nameop, block_id, checked_ops)
      [] opcode = "NAME_TRANSFER" -> check_transfer(e, nameop, block_id, checked_ops)
      [] opcode = "NAME_REVOKE" -> check_revoke(e, nameop, block_id, checked_ops)
      [] opcode = "NAME_IMPORT" -> check_name_import(e, nameop, block_id, checked_ops)

\* ---- op_check (operations/__init__.py) ----------------------------------

\* the bound of op_check's loop, "while count < 3"
OP_CHECK_MAX_COUNT == 3

\* the loop state of op_check before the first iteration; opcode is
\* nameop['opcode'], casts counts the re-interpretations
OpCheckStart(opcode) ==
    [count |-> 0, opcode |-> opcode, rc |-> FALSE, done |-> FALSE, casts |-> 0]

\* an op_check that takes a re-interpreted op as checked
OpCheckStep_AcceptCast(s, rc, new_opcode) ==
    [count |-> s.count + 1, opcode |-> new_opcode, rc |-> rc, done |-> TRUE,
     casts |-> IF rc /\ new_opcode # s.opcode THEN s.casts + 1 ELSE s.casts]

\* one iteration of op_check's loop, given the validator's verdict rc and the
\* opcode the checked clone carries afterwards
OpCheckStep(s, rc, new_opcode) ==
    IF ~rc
    THEN \* rejected: break
         [s EXCEPT !.count = @ + 1, !.rc = FALSE, !.done = TRUE]
    ELSE IF new_opcode = s.opcode
    THEN \* we're done: nameop.update(nameop_clone); break
         [s EXCEPT !.count = @ + 1, !.rc = TRUE, !.done = TRUE]
    ELSE \* type-cast: nameop['opcode'] = new_opcode; continue
         [s EXCEPT !.count = @ + 1, !.rc = TRUE, !.opcode = new_opcode, !.casts = @ + 1]

\* the loop condition of op_check
OpCheckContinues(s) == ~s.done /\ s.count < OP_CHECK_MAX_COUNT

\* an op_check that returns rc whatever the count
OpCheckOutcome_NoAssert(s) ==
    IF s.rc THEN "accept" ELSE "reject"

\* what op_check does after its loop: sys.exit(1) unless count < 3, else rc
OpCheckOutcome(s) ==
    IF ~(s.count < OP_CHECK_MAX_COUNT) THEN "abort"
    ELSE IF s.rc THEN "accept"
    ELSE "reject"

\* op_check's loop over the validators: r = [s, nameop, e, checked_ops]
\* (each value is bound once it is computed: CHOOSE y \in {F(x) : x \in {v}} : TRUE
\* is F(v))
OpCheckPass(r, v) ==
    CHOOSE y \in
        {[s |-> s2,
          nameop |-> IF ~v.rc THEN r.nameop
                     ELSE IF s2.done THEN v.nameop
                     ELSE [r.nameop EXCEPT !.opcode = v.opcode],
          e |-> IF "fatal" \in DOMAIN v
                THEN [r.e EXCEPT !.collisions = v.collision_state,
                                 !.working_dir = v.working_dir,
                                 !.aborted = @ \/ v.fatal]
                ELSE [r.e EXCEPT !.collisions = v.collision_state],
          checked_ops |-> v.checked_ops] : s2 \in {OpCheckStep(r.s, v.rc, v.opcode)}} : TRUE

RECURSIVE OpCheckLoop(_, _)
OpCheckLoop(r, block_id) ==
    IF ~OpCheckContinues(r.s) THEN r
    ELSE CHOOSE y \in
           {OpCheckLoop(r2, block_id) :
              r2 \in {OpCheckPass(r, v) :
                        v \in {CHECK_METHODS(r.s.opcode, r.e, r.nameop, block_id,
                                             r.checked_ops)}}} : TRUE

\* CANONICALIZE_METHODS: the opcodes that have a canonicalize method
CANONICALIZE_METHODS ==
    {"NAME_UPDATE", "NAME_TRANSFER", "NAME_IMPORT", "NAMESPACE_PREORDER",
     "NAMESPACE_REVEAL", "NAMESPACE_READY"}

\* the canonicalize method of op_name: the dict it is given, brought into the
\* canonical form of op_name (canonical names the form the op is in) and returned
canonicalize(op_name, parsed_op) == [parsed_op EXCEPT !.canonical = op_name]

\* op_canonicalize(op_name, parsed_op)
op_canonicalize(op_name, parsed_op) ==
    IF op_name \notin CANONICALIZE_METHODS
    THEN \* no canonicalization needed
         parsed_op
    ELSE canonicalize(op_name, parsed_op)

\* UNSTORED_CANONICAL_FIELDS: the fields without a column in the db schema;
\* the lists of NAME_UPDATE and NAME_TRANSFER are those of their modules
UNSTORED_CANONICAL_FIELDS(opcode) ==
    IF opcode \in {"NAME_UPDATE", "NAME_TRANSFER"} THEN {"name_consensus_hash"} ELSE {}

\* the end of op_check for an accepted op: op_canonicalize for nameop['opcode'],
\* then del nameop[f] for every unstored canonical field
OpCheckCanonical(nameop) ==
    CHOOSE y \in
      {[f \in DOMAIN c \ UNSTORED_CANONICAL_FIELDS(c.opcode) |-> c[f]] :
         c \in {op_canonicalize(nameop.opcode, nameop)}} : TRUE

\* an op_check that returns True for an op its validator rejected
op_check_AcceptRejected(e, nameop, block_id, checked_ops) ==
    CHOOSE y \in
      {[x EXCEPT !.s.rc = TRUE] :
         x \in {OpCheckLoop(r, block_id) :
                  r \in {[s |-> OpCheckStart(nameop.opcode), nameop |-> nameop, e |-> e,
                          checked_ops |-> checked_ops]}}} : TRUE

\* an op_check that hands the accepted op on as the validators left it
op_check_AsChecked(e, nameop, block_id, checked_ops) ==
    CHOOSE y \in
      {OpCheckLoop(r, block_id) :
         r \in {[s |-> OpCheckStart(nameop.opcode), nameop |-> nameop, e |-> e,
                 checked_ops |-> checked_ops]}} : TRUE

\* op_check(state_engine, nameop, block_id, checked_ops)
op_check(e, nameop, block_id, checked_ops) ==
    CHOOSE y \in
      {IF x.s.rc THEN [x EXCEPT !.nameop = OpCheckCanonical(x.nameop)] ELSE x :
         x \in {OpCheckLoop(r, block_id) :
                  r \in {[s |-> OpCheckStart(nameop.opcode), nameop |-> nameop, e |-> e,
                          checked_ops |-> checked_ops]}}} : TRUE

\* ---- the table layer: writes (db.py) -------------------------------------

\* self.db.commit(): what the writer holds becomes what every connection sees
db_commit(e) == [e EXCEPT !.committed = Tables(e)]

\* self.db.rollback(): the writer's uncommitted writes are discarded
db_rollback(e) ==
    [e EXCEPT !.preorders = e.committed.preorders,
              !.name_records = e.committed.name_records,
              !.namespaces = e.committed.namespaces,
              !.history = e.committed.history]

\* os.abort()
os_abort(e) == [e EXCEPT !.aborted = TRUE]

\* namedb_preorder_insert(cur, preorder_rec): fails on a duplicate preorder_hash
namedb_preorder_insert(e, preorder_rec) ==
    IF \E r \in e.preorders : r.preorder_hash = preorder_rec.preorder_hash
    THEN [rc |-> FALSE, e |-> e]
    ELSE [rc |-> TRUE, e |-> [e EXCEPT !.preorders = @ \cup {preorder_rec}]]

\* the row a creation writes
InitialRow(opcode, initial_state, current_block_number) ==
    IF opcode \in {"NAME_REGISTRATION", "NAME_IMPORT"}
    THEN [op |-> opcode, name |-> initial_state.name,
          namespace_id |-> initial_state.namespace_id,
          sender |-> make_payment_script(initial_state.recipient),
          address |-> initial_state.recipient,
          preorder_hash |-> initial_state.preorder_hash,
          block_number |-> current_block_number,
          first_registered |-> current_block_number,
          last_renewed |-> current_block_number,
          value_hash |-> NoHash, revoked |-> FALSE]
    ELSE [op |-> "NAMESPACE_REVEAL", namespace_id |-> initial_state.namespace_id,
          sender |-> initial_state.sender, recipient |-> initial_state.recipient,
          preorder_hash |-> initial_state.preorder_hash,
          lifetime |-> initial_state.lifetime,
          reveal_block |-> current_block_number, ready_block |-> 0]

\* the history_id of a record: its name or its namespace_id
HistoryId(rec) == IF "name" \in DOMAIN rec THEN rec.name ELSE rec.namespace_id

\* the block a row was created in
CreatedAt(rec) == IF "name" \in DOMAIN rec THEN rec.block_number ELSE rec.reveal_block

\* the current row of the name or namespace rec is a row of: the last one
\* created with its history_id
CurrentRow(e, rec) ==
    LET rows == {r \in e.name_records \cup e.namespaces : HistoryId(r) = HistoryId(rec)}
    IN IF rows = {} THEN NoRec
       ELSE CHOOSE r \in rows : \A q \in rows : CreatedAt(q) <= CreatedAt(r)

\* a row of the history table, keyed by (history_id, block_number, vtxindex):
\* the columns of the record before the op at that position wrote it
HistoryRow(rec, block_number, vtxindex, prior) ==
    [history_id |-> HistoryId(rec), block_number |-> block_number,
     vtxindex |-> vtxindex, prior |-> prior]

\* namedb_state_create(cur, opcode, initial_state, block, ..., preorder, table):
\* consumes the preorder and inserts the new record; falsy when the preorder
\* row is gone
namedb_state_create(e, opcode, initial_state, current_block_number, preorder) ==
    LET rec == InitialRow(opcode, initial_state, current_block_number)
    IN IF preorder \notin e.preorders THEN [rc |-> FALSE, e |-> e, rec |-> NoRec]
       ELSE IF opcode = "NAME_REGISTRATION"
       THEN [rc |-> TRUE, rec |-> rec,
             e |-> [e EXCEPT !.preorders = @ \ {preorder},
                             !.name_records = @ \cup {rec},
                             !.history = @ \cup {HistoryRow(rec, current_block_number,
                                                            initial_state.vtxindex,
                                                            CurrentRow(e, rec))}]]
       ELSE [rc |-> TRUE, rec |-> rec,
             e |-> [e EXCEPT !.preorders = @ \ {preorder},
                             !.namespaces = @ \cup {rec},
                             !.history = @ \cup {HistoryRow(rec, current_block_number,
                                                            initial_state.vtxindex,
                                                            CurrentRow(e, rec))}]]

\* namedb_state_create_as_import(db, opcode, initial_state, block, ..., table):
\* inserts the new record; no preorder is involved
namedb_state_create_as_import(e, opcode, initial_state, current_block_number) ==
    LET rec == InitialRow(opcode, initial_state, current_block_number)
    IN IF opcode = "NAME_IMPORT"
       THEN \* an import of a name that exists writes over its record
            [rc |-> TRUE, rec |-> rec,
             e |-> [e EXCEPT !.name_records = {r \in @ : r.name # rec.name} \cup {rec},
                             !.history = @ \cup {HistoryRow(rec, current_block_number,
                                                            initial_state.vtxindex,
                                                            CurrentRow(e, rec))}]]
       ELSE IF opcode = "NAME_REGISTRATION"
       THEN [rc |-> TRUE, rec |-> rec, e |-> [e EXCEPT !.name_records = @ \cup {rec},
                             !.history = @ \cup {HistoryRow(rec, current_block_number,
                                                            initial_state.vtxindex,
                                                            CurrentRow(e, rec))}]]
       ELSE [rc |-> TRUE, rec |-> rec, e |-> [e EXCEPT !.namespaces = @ \cup {rec},
                             !.history = @ \cup {HistoryRow(rec, current_block_number,
                                                            initial_state.vtxindex,
                                                            CurrentRow(e, rec))}]]

\* namedb_state_transition(cur, opcode, transition, block, ..., cur_record, table):
\* writes the new current row in place of cur_record
namedb_state_transition(e, opcode, transition, current_block_number, cur_record) ==
    IF opcode = "NAME_RENEWAL"
    THEN LET rec == [cur_record EXCEPT !.last_renewed = current_block_number]
         IN [rc |-> TRUE, rec |-> rec,
             e |-> [e EXCEPT !.name_records = (@ \ {cur_record}) \cup {rec},
                             !.history = @ \cup {HistoryRow(rec, current_block_number,
                                                            transition.vtxindex, cur_record)}]]
    ELSE IF opcode = "NAME_UPDATE"
    THEN LET rec == [cur_record EXCEPT !.value_hash = transition.update_hash]
         IN [rc |-> TRUE, rec |-> rec,
             e |-> [e EXCEPT !.name_records = (@ \ {cur_record}) \cup {rec},
                             !.history = @ \cup {HistoryRow(rec, current_block_number,
                                                            transition.vtxindex, cur_record)}]]
    ELSE IF opcode = "NAME_TRANSFER"
    THEN LET rec == [cur_record EXCEPT !.address = transition.recipient,
                                       !.sender = make_payment_script(transition.recipient)]
         IN [rc |-> TRUE, rec |-> rec,
             e |-> [e EXCEPT !.name_records = (@ \ {cur_record}) \cup {rec},
                             !.history = @ \cup {HistoryRow(rec, current_block_number,
                                                            transition.vtxindex, cur_record)}]]
    ELSE IF opcode = "NAME_REVOKE"
    THEN LET rec == [cur_record EXCEPT !.revoked = TRUE]
         IN [rc |-> TRUE, rec |-> rec,
             e |-> [e EXCEPT !.name_records = (@ \ {cur_record}) \cup {rec},
                             !.history = @ \cup {HistoryRow(rec, current_block_number,
                                                            transition.vtxindex, cur_record)}]]
    ELSE LET rec == [cur_record EXCEPT !.op = "NAMESPACE_READY",
                                       !.ready_block = current_block_number]
         IN [rc |-> TRUE, rec |-> rec,
             e |-> [e EXCEPT !.namespaces = (@ \ {cur_record}) \cup {rec},
                             !.history = @ \cup {HistoryRow(rec, current_block_number,
                                                            transition.vtxindex, cur_record)}]]

\* ---- committing (namedb.py) ---------------------------------------------
\* A commit operator yields [e, canonical_op, raised]: the engine afterwards
\* (e.aborted after os.abort()), the record it returns, and whether a Python
\* exception left it instead.

\* the empty dict / list a collided op's commit returns: a record without fields
EmptyDict == [field \in {} |-> TRUE]

\* the value of canonical_op when nothing was returned
NoCanonicalOp == [op |-> "NONE"]
IsNone(rec) == "op" \in DOMAIN rec /\ rec.op = "NONE"

CommitAbort(e) == [e |-> os_abort(e), canonical_op |-> NoCanonicalOp, raised |-> FALSE]
CommitRaise(e) == [e |-> e, canonical_op |-> NoCanonicalOp, raised |-> TRUE]

\* sanitize_op of a preorder: the row namedb_preorder_insert is given
PreorderRow(nameop, current_block_number) ==
    [op |-> nameop.opcode, preorder_hash |-> nameop.preorder_hash,
     sender |-> nameop.sender, block_number |-> current_block_number]

\* the record of a committed op with the position of its transaction
WithVtxindex(rec, nameop) ==
    [f \in DOMAIN rec \cup {"vtxindex"} |-> IF f = "vtxindex" THEN nameop.vtxindex ELSE rec[f]]

\* state_create_get_history_id_key / state_transition_get_history_id_key
get_history_id_key(nameop) ==
    IF nameop.opcode \in {"NAME_REGISTRATION", "NAME_RENEWAL", "NAME_UPDATE",
                          "NAME_TRANSFER", "NAME_REVOKE", "NAME_IMPORT"}
    THEN "name" ELSE "namespace_id"

\* OPCODE_NAME_STATE_IMPORTS
OPCODE_NAME_STATE_IMPORTS == {"NAME_IMPORT"}

\* a commit_state_preorder that does not look at what the insert returned
commit_state_preorder_IgnoreRc(e, nameop, current_block_number) ==
    IF e.disposition # DISPOSITION_RW THEN CommitAbort(e)
    ELSE IF nameop_is_collided(nameop)
    THEN CommitRaise(e)
    ELSE LET commit_preorder == PreorderRow(nameop, current_block_number)
             ins == namedb_preorder_insert(e, commit_preorder)
         IN [e |-> db_commit(ins.e),
             canonical_op |-> WithVtxindex(commit_preorder, nameop),
             raised |-> FALSE]

\* a commit_state_preorder that does not look at the disposition of the handle
commit_state_preorder_AnyHandle(e, nameop, current_block_number) ==
    IF nameop_is_collided(nameop) THEN CommitRaise(e)
    ELSE LET commit_preorder == PreorderRow(nameop, current_block_number)
             ins == namedb_preorder_insert(e, commit_preorder)
         IN IF ~ins.rc THEN CommitAbort(e)
            ELSE [e |-> db_commit(ins.e),
                  canonical_op |-> WithVtxindex(commit_preorder, nameop),
                  raised |-> FALSE]

\* BlockstackDB.commit_state_preorder
commit_state_preorder(e, nameop, current_block_number) ==
    IF e.disposition # DISPOSITION_RW THEN CommitAbort(e)
    ELSE IF nameop_is_collided(nameop)
    THEN \* self.log_reject( block_id, ... ): block_id is not defined here
         CommitRaise(e)
    ELSE LET commit_preorder == PreorderRow(nameop, current_block_number)
             ins == namedb_preorder_insert(e, commit_preorder)
         IN IF ~ins.rc THEN CommitAbort(e)
            ELSE [e |-> db_commit(ins.e),
                  canonical_op |-> WithVtxindex(commit_preorder, nameop),
                  raised |-> FALSE]

\* a commit_state_create that takes every creation for an import
commit_state_create_AsImport(e, nameop, current_block_number) ==
    IF e.disposition # DISPOSITION_RW THEN CommitAbort(e)
    ELSE IF nameop_is_collided(nameop)
    THEN [e |-> e, canonical_op |-> EmptyDict, raised |-> FALSE]
    ELSE LET c == namedb_state_create_as_import(e, nameop.opcode, nameop, current_block_number)
         IN [e |-> db_commit(c.e), canonical_op |-> WithVtxindex(c.rec, nameop),
             raised |-> FALSE]

\* BlockstackDB.commit_state_create
commit_state_create(e, nameop, current_block_number) ==
    IF e.disposition # DISPOSITION_RW THEN CommitAbort(e)
    ELSE IF nameop_is_collided(nameop)
    THEN \* log_reject; return {}
         [e |-> e, canonical_op |-> EmptyDict, raised |-> FALSE]
    ELSE IF nameop.preorder # NoRec
    THEN LET c == namedb_state_create(e, nameop.opcode, nameop, current_block_number,
                                      nameop.preorder)
         IN IF ~c.rc THEN CommitAbort(db_rollback(e))
            ELSE [e |-> db_commit(c.e), canonical_op |-> WithVtxindex(c.rec, nameop),
                  raised |-> FALSE]
    ELSE IF nameop.opcode \notin OPCODE_NAME_STATE_IMPORTS THEN CommitAbort(e)
    ELSE LET c == namedb_state_create_as_import(e, nameop.opcode, nameop, current_block_number)
         IN IF ~c.rc THEN CommitAbort(db_rollback(e))
            ELSE [e |-> db_commit(c.e), canonical_op |-> WithVtxindex(c.rec, nameop),
                  raised |-> FALSE]

\* a commit_state_transition that writes the last processed block (self.lastblock)
\* for the block of the transition
commit_state_transition_Lastblock(e, nameop, current_block_number) ==
    IF e.disposition # DISPOSITION_RW THEN CommitAbort(e)
    ELSE LET history_id_key == get_history_id_key(nameop)
             cur_record == IF history_id_key = "name"
                           THEN namedb_get_name(e, nameop.name, current_block_number, TRUE)
                           ELSE namedb_get_namespace(e, nameop.namespace_id, current_block_number)
         IN IF cur_record = NoRec THEN CommitAbort(db_rollback(e))
            ELSE LET t == namedb_state_transition(e, nameop.opcode, nameop,
                                                  e.lastblock, cur_record)
                 IN IF ~t.rc THEN CommitAbort(db_rollback(e))
                    ELSE [e |-> t.e, canonical_op |-> WithVtxindex(t.rec, nameop),
                          raised |-> FALSE]

\* BlockstackDB.commit_state_transition
commit_state_transition(e, nameop, current_block_number) ==
    IF e.disposition # DISPOSITION_RW THEN CommitAbort(e)
    ELSE LET history_id_key == get_history_id_key(nameop)
             cur_record == IF history_id_key = "name"
                           THEN namedb_get_name(e, nameop.name, current_block_number, TRUE)
                           ELSE namedb_get_namespace(e, nameop.namespace_id, current_block_number)
         IN IF cur_record = NoRec THEN CommitAbort(db_rollback(e))
            ELSE LET t == namedb_state_transition(e, nameop.opcode, nameop,
                                                  current_block_number, cur_record)
                 IN IF ~t.rc THEN CommitAbort(db_rollback(e))
                    ELSE [e |-> t.e, canonical_op |-> WithVtxindex(t.rec, nameop),
                          raised |-> FALSE]

\* op_get_consensus_fields(opcode) + op_get_quirk_fields(opcode)
op_get_consensus_fields(opcode) ==
    IF opcode \in OPCODE_PREORDER_OPS THEN {"op", "vtxindex", "block_number", "preorder_hash", "sender"}
    ELSE IF opcode \in {"NAME_REGISTRATION", "NAME_RENEWAL", "NAME_IMPORT"}
    THEN {"op", "vtxindex", "block_number", "name", "sender", "address", "last_renewed"}
    ELSE IF opcode \in {"NAME_UPDATE", "NAME_TRANSFER", "NAME_REVOKE"}
    THEN {"op", "vtxindex", "name", "sender", "address", "value_hash", "revoked"}
    ELSE {"op", "vtxindex", "namespace_id", "sender", "recipient", "reveal_block", "ready_block"}

\* the loop of extract_consensus_op over consensus_fields + quirk_fields:
\* [aborted, ret]
extract_fields(fields, processed_op_data) ==
    IF \E field \in fields : field \notin DOMAIN processed_op_data
    THEN [aborted |-> TRUE, ret |-> EmptyDict]
    ELSE [aborted |-> FALSE, ret |-> [field \in fields |-> processed_op_data[field]]]

\* BlockstackDB.extract_consensus_op: [aborted, ret]
extract_consensus_op(opcode, processed_op_data) ==
    extract_fields(op_get_consensus_fields(opcode), processed_op_data)

\* accepted_nameop.get('opcode', None) of an op without an opcode
NoOpcode == "NONE"

\* a commit_operation that skips an op it has no commit method for
commit_operation_SkipUnknown(e, accepted_nameop, current_block_number) ==
    IF e.disposition # DISPOSITION_RW
    THEN [e |-> os_abort(e), consensus_op |-> EmptyDict, raised |-> FALSE]
    ELSE IF accepted_nameop.opcode \notin
              OPCODE_PREORDER_OPS \cup OPCODE_CREATION_OPS \cup OPCODE_TRANSITION_OPS
    THEN [e |-> e, consensus_op |-> EmptyDict, raised |-> FALSE]
    ELSE CHOOSE y \in
      {IF c.raised \/ c.e.aborted
       THEN [e |-> c.e, consensus_op |-> EmptyDict, raised |-> c.raised]
       ELSE IF IsNone(c.canonical_op)
       THEN [e |-> os_abort(c.e), consensus_op |-> EmptyDict, raised |-> FALSE]
       ELSE CHOOSE z \in
              {IF x.aborted
               THEN [e |-> os_abort(c.e), consensus_op |-> EmptyDict, raised |-> FALSE]
               ELSE [e |-> c.e, consensus_op |-> x.ret, raised |-> FALSE] :
                 x \in {extract_consensus_op(accepted_nameop.opcode, c.canonical_op)}} : TRUE :
         c \in {IF accepted_nameop.opcode \in OPCODE_PREORDER_OPS
                THEN commit_state_preorder(e, accepted_nameop, current_block_number)
                ELSE IF accepted_nameop.opcode \in OPCODE_CREATION_OPS
                THEN commit_state_create(e, accepted_nameop, current_block_number)
                ELSE IF accepted_nameop.opcode \in OPCODE_TRANSITION_OPS
                THEN commit_state_transition(e, accepted_nameop, current_block_number)
                ELSE CommitRaise(e)}} : TRUE

\* BlockstackDB.commit_operation: [e, consensus_op, raised]
commit_operation(e, accepted_nameop, current_block_number) ==
    IF e.disposition # DISPOSITION_RW
    THEN [e |-> os_abort(e), consensus_op |-> EmptyDict, raised |-> FALSE]
    ELSE IF accepted_nameop.opcode = NoOpcode
    THEN \* assert opcode is not None
         [e |-> os_abort(e), consensus_op |-> EmptyDict, raised |-> FALSE]
    ELSE CHOOSE y \in
      {IF c.raised \/ c.e.aborted
       THEN [e |-> c.e, consensus_op |-> EmptyDict, raised |-> c.raised]
       ELSE IF IsNone(c.canonical_op)
       THEN [e |-> os_abort(c.e), consensus_op |-> EmptyDict, raised |-> FALSE]
       ELSE CHOOSE z \in
              {IF x.aborted
               THEN [e |-> os_abort(c.e), consensus_op |-> EmptyDict, raised |-> FALSE]
               ELSE [e |-> c.e, consensus_op |-> x.ret, raised |-> FALSE] :
                 x \in {extract_consensus_op(accepted_nameop.opcode, c.canonical_op)}} : TRUE :
         c \in {IF accepted_nameop.opcode \in OPCODE_PREORDER_OPS
                THEN commit_state_preorder(e, accepted_nameop, current_block_number)
                ELSE IF accepted_nameop.opcode \in OPCODE_CREATION_OPS
                THEN commit_state_create(e, accepted_nameop, current_block_number)
                ELSE IF accepted_nameop.opcode \in OPCODE_TRANSITION_OPS
                THEN commit_state_transition(e, accepted_nameop, current_block_number)
                ELSE CommitRaise(e)}} : TRUE

\* BlockstackDB.commit_finished(block_id)
commit_finished(e, block_id) ==
    [db_commit(e) EXCEPT !.collisions = clear_collisions(e.collisions, block_id)]

\* ---- the block pipeline ---------------------------------------------------

\* the block that is being processed
block_id(e) == e.lastblock + 1

\* step 2 of the pipeline for one transaction: op_check, then the op joins
\* checked_ops when it was accepted
process_check(e, tx) ==
    CHOOSE y \in
      {IF OpCheckOutcome(r.s) = "abort" THEN os_abort(r.e)
       ELSE IF r.e.aborted THEN r.e
       ELSE [r.e EXCEPT !.vtxindex = @ + 1,
                        !.checked_ops = IF OpCheckOutcome(r.s) = "accept"
                                        THEN Append(r.checked_ops, r.nameop)
                                        ELSE r.checked_ops] :
         r \in {op_check(e, NameOp(tx, e.vtxindex), block_id(e), e.checked_ops)}} : TRUE

\* step 4 of the pipeline for the next op of checked_ops; an exception that
\* leaves commit_operation is an unexpected failure: rollback and abort
process_commit(e) ==
    CHOOSE y \in
      {IF c.raised THEN os_abort(db_rollback(c.e))
       ELSE IF c.e.aborted THEN c.e
       ELSE [c.e EXCEPT !.ncommitted = @ + 1, !.block_ops = Append(@, c.consensus_op)] :
         c \in {commit_operation(e, e.checked_ops[e.ncommitted + 1], block_id(e))}} : TRUE

\* steps 4 (end) and 5: commit_finished, then the block's snapshot entry
process_finish(e) ==
    [commit_finished(e, block_id(e)) EXCEPT
        !.snapshots = Append(@, e.block_ops),
        !.boundary = Tables(e),
        !.lastblock = @ + 1,
        !.phase = "check", !.vtxindex = 0, !.checked_ops = <<>>,
        !.ncommitted = 0, !.block_ops = <<>>]

\* collision entries left over from blocks that are not processed any more
StaleBlocks == {0}
StaleCollisions ==
    [preorder_hash |-> {<<b, hash_name(n, s, a)>> :
                           b \in StaleBlocks, n \in Names \cup NamespaceIds, s \in Scripts, a \in Addrs},
     name |-> {<<b, n>> : b \in StaleBlocks, n \in Names},
     namespace_id |-> {<<b, n>> : b \in StaleBlocks, n \in NamespaceIds}]

\* a whole block: every transaction checked in order, every accepted op
\* committed in order, then the block finished
RECURSIVE CheckAll(_, _)
CheckAll(e, txs) ==
    IF txs = <<>> \/ e.aborted THEN e
    ELSE CHOOSE y \in {CheckAll(e2, Tail(txs)) : e2 \in {process_check(e, Head(txs))}} : TRUE

RECURSIVE CommitAll(_)
CommitAll(e) ==
    IF e.aborted \/ e.ncommitted = Len(e.checked_ops) THEN e
    ELSE CHOOSE y \in {CommitAll(e2) : e2 \in {process_commit(e)}} : TRUE

RunBlock(e, txs) ==
    CHOOSE y \in
      {IF c.aborted THEN c ELSE process_finish(c) :
         c \in {CommitAll(k) : k \in {[j EXCEPT !.phase = "commit"] : j \in {CheckAll(e, txs)}}}} : TRUE

\* the transactions that bring up a namespace, as every scenario begins:
\* NAMESPACE_PREORDER, NAMESPACE_REVEAL and NAMESPACE_READY in blocks of their own
NamespaceTx(opcode, namespace_id, lifetime) ==
    [opcode |-> opcode, name |-> NoName, namespace_id |-> namespace_id,
     sender |-> make_payment_script(1), recipient |-> 1, paid |-> TRUE,
     lifetime |-> lifetime]

NamespaceUp(e, lifetime) ==
    CHOOSE y \in
      {RunBlock(e2, <<NamespaceTx("NAMESPACE_READY", "test", lifetime)>>) :
         e2 \in {RunBlock(e1, <<NamespaceTx("NAMESPACE_REVEAL", "test", lifetime)>>) :
                   e1 \in {RunBlock(e, <<NamespaceTx("NAMESPACE_PREORDER", "test", lifetime)>>)}}} : TRUE

\* the transactions that register a name, as every scenario goes on:
\* NAME_PREORDER and NAME_REGISTRATION in blocks of their own
NameTx(opcode, name) ==
    [opcode |-> opcode, name |-> name, namespace_id |-> get_namespace_from_name(name),
     sender |-> make_payment_script(1), recipient |-> 1, paid |-> TRUE, lifetime |-> 0]

\* e is an engine with the namespace up
NameUp(e) ==
    CHOOSE y \in
      {RunBlock(e1, <<NameTx("NAME_REGISTRATION", NamePool[1])>>) :
         e1 \in {RunBlock(e, <<NameTx("NAME_PREORDER", NamePool[1])>>)}} : TRUE

\* the engines of a run are picked up over an empty database, after the
\* blocks that brought up the namespace, or after the blocks that registered
\* the first name; the peer was fed the same blocks
PipelineInit ==
    /\ \E e0 \in {EmptyEngine}, p0 \in {[EmptyEngine EXCEPT !.collisions = StaleCollisions]} :
       \E e1 \in {NamespaceUp(e0, NAMESPACE_LIFETIME)},
          p1 \in {NamespaceUp(p0, NAMESPACE_LIFETIME)} :
       \E e2 \in {NameUp(e1)}, p2 \in {NameUp(p1)} :
       \E i \in 1..3 :
          /\ engine = <<e0, e1, e2>>[i]
          /\ peer = <<p0, p1, p2>>[i]
    /\ stream = MaxBlock

\* the pipeline state of the runs that leave the engines alone
PipelineIdle ==
    /\ engine = EmptyEngine
    /\ peer = EmptyEngine
    /\ stream = 0

Running == ~engine.aborted /\ stream > 0

\* the next transaction of the block is parsed and checked
CheckOp(tx) ==
    /\ Running
    /\ engine.phase = "check"
    /\ engine.vtxindex < MaxTx
    /\ engine' = process_check(engine, tx)
    /\ peer' = process_check(peer, tx)
    /\ UNCHANGED stream

\* the block has no more transactions
EndCheck ==
    /\ Running
    /\ engine.phase = "check"
    /\ engine' = [engine EXCEPT !.phase = "commit"]
    /\ peer' = [peer EXCEPT !.phase = "commit"]
    /\ UNCHANGED stream

\* the next op of checked_ops is committed
CommitOp ==
    /\ Running
    /\ engine.phase = "commit"
    /\ engine.ncommitted < Len(engine.checked_ops)
    /\ engine' = process_commit(engine)
    /\ peer' = IF peer.ncommitted < Len(peer.checked_ops) /\ ~peer.aborted
               THEN process_commit(peer) ELSE peer
    /\ UNCHANGED stream

\* the block is finished
CommitFinished ==
    /\ Running
    /\ engine.phase = "commit"
    /\ engine.ncommitted = Len(engine.checked_ops)
    /\ engine' = process_finish(engine)
    /\ peer' = IF ~peer.aborted THEN process_finish(peer) ELSE peer
    /\ stream' = stream - 1

Next ==
    \/ \E tx \in TxOps : CheckOp(tx) /\ UNCHANGED <<hvars, ovars>>
    \/ EndCheck /\ UNCHANGED <<hvars, ovars>>
    \/ CommitOp /\ UNCHANGED <<hvars, ovars>>
    \/ CommitFinished /\ UNCHANGED <<hvars, ovars>>

\* the state of the runs that call no op_check of their own
OpCheckIdle == oc = [s |-> OpCheckStart("NAME_PREORDER"), result |-> "running"]

Init == HandleInit /\ PipelineInit /\ OpCheckIdle

Spec == Init /\ [][Next]_vars

HandleNext ==
    \/ \E t \in Threads, b \in BorrowBlocks :
          BorrowAcquire(t, b) /\ UNCHANGED <<pvars, ovars>>
    \/ \E t \in Threads, rc \in BOOLEAN :
          BorrowBody(t, rc) /\ UNCHANGED <<pvars, ovars>>
    \/ \E t \in Threads, h \in HandleIds \cup {None}, b \in BorrowBlocks :
          ReleaseAcquire(t, h, b) /\ UNCHANGED <<pvars, ovars>>
    \/ \E t \in Threads :
          ReleaseBody(t) /\ UNCHANGED <<pvars, ovars>>
    \/ \E t \in Threads :
          BorrowRaise(t) /\ UNCHANGED <<pvars, ovars>>
    \/ \E t \in Threads :
          ReleaseRaise(t) /\ UNCHANGED <<pvars, ovars>>
    \/ \E t \in Threads, rc \in BOOLEAN :
          GetReadwriteInstance(t, rc) /\ UNCHANGED <<pvars, ovars>>
    \/ \E t \in Threads, rc \in BOOLEAN :
          GetReadonlyInstance(t, rc) /\ UNCHANGED <<pvars, ovars>>
    \/ \E t \in Threads, h \in HandleIds :
          CloseHandle(t, h) /\ UNCHANGED <<pvars, ovars>>

HandleSpecInit == HandleInit /\ PipelineIdle /\ OpCheckIdle

HandleSpec == HandleSpecInit /\ [][HandleNext]_vars

\* ------------------------------------------------------------------------
\* Properties of the block pipeline
\* ------------------------------------------------------------------------

\* the op commit_operation is given next
NextToCommit(e) == e.checked_ops[e.ncommitted + 1]

\* a step in which commit_operation ran on the engine
CommitStep ==
    /\ engine.phase = "commit"
    /\ ~engine.aborted
    /\ engine.ncommitted < Len(engine.checked_ops)
    /\ engine' # engine

\* C3: a read-only handle never sees the effect of only some of a block's
\* accepted ops: what readers see is the database as of the last finished
\* block, or that with every op of the block being processed applied.
C3_AtomicBlockCommit ==
    \/ engine.committed = engine.boundary
    \/ /\ engine.phase = "commit"
       /\ engine.ncommitted = Len(engine.checked_ops)
       /\ engine.committed = Tables(engine)

\* C4: an op that was flagged __collided__ is dropped when it is committed
\* (nothing is written for it and processing goes on to the next op), so none
\* of the ops that collided in a block is in the database after the block.
C4_CollidedDropped ==
    [][(CommitStep /\ nameop_is_collided(NextToCommit(engine)))
          => /\ ~engine'.aborted
             /\ Tables(engine') = Tables(engine)
             /\ engine'.ncommitted = engine.ncommitted + 1]_vars

\* C25: an in-block collision is recovered locally: as long as a block has an
\* accepted op flagged __collided__ the process is not aborted, and when all
\* the ops of the block have been committed its consensus records are those
\* of the ops that are not flagged, one for each.
C25_CollisionRecovered ==
    LET flagged == {i \in 1..Len(engine.checked_ops) : nameop_is_collided(engine.checked_ops[i])}
    IN (engine.phase = "commit" /\ flagged # {})
          => /\ ~engine.aborted
             /\ engine.ncommitted = Len(engine.checked_ops)
                   => Len(engine.block_ops) = Len(engine.checked_ops) - Cardinality(flagged)

\* the step is the check of a transaction that its validator rejects
RejectedCheck ==
    \E tx \in TxOps :
       /\ CheckOp(tx)
       /\ ~CHECK_METHODS(tx.opcode, engine, NameOp(tx, engine.vtxindex), block_id(engine),
                         engine.checked_ops).rc

\* C26: an op that its validator rejects changes no record and does not abort
\* the process: the check leaves the name, namespace and preorder tables and
\* what is committed as they were and does not add the op to the ops to
\* commit, and a block all of whose transactions were rejected ends with the
\* tables of the block before it.
C26_RejectedOpNoChange ==
    /\ [][RejectedCheck
            => /\ ~engine'.aborted
               /\ Tables(engine') = Tables(engine)
               /\ engine'.committed = engine.committed
               /\ Len(engine'.checked_ops) = Len(engine.checked_ops)]_vars
    /\ [][(CommitFinished /\ engine.vtxindex > 0 /\ engine.checked_ops = <<>>)
            => /\ ~engine'.aborted
               /\ Tables(engine') = engine.boundary
               /\ engine'.committed = engine.boundary
               /\ engine'.boundary = engine.boundary]_vars

\* a block over a database with a registered name whose transactions were
\* all rejected
C26_Witness ==
    /\ ~engine.aborted
    /\ engine.phase = "commit"
    /\ engine.vtxindex = MaxTx
    /\ engine.checked_ops = <<>>
    /\ engine.name_records # {}
    /\ Tables(engine) = engine.boundary

CollisionKinds ==
    {[history_id_key |-> "preorder_hash", affected_opcodes |-> OPCODE_PREORDER_OPS],
     [history_id_key |-> "name", affected_opcodes |-> OPCODE_NAME_STATE_CREATIONS],
     [history_id_key |-> "namespace_id", affected_opcodes |-> OPCODE_NAMESPACE_STATE_CREATIONS],
     [history_id_key |-> "name", affected_opcodes |-> OPCODE_PREORDER_OPS]}

\* the ids a check may be asked about: those the checked ops hold under the
\* key and those recorded under it
CollisionIds(e, history_id_key) ==
    {OpHistoryId(e.checked_ops[i], history_id_key) : i \in 1..Len(e.checked_ops)}
       \cup {c[2] : c \in e.collisions[history_id_key]}

\* the ops a collision check is to tag
Tagged(checked_ops, history_id_key, history_id, affected_opcodes) ==
    {i \in 1..Len(checked_ops) :
        /\ op_get_opcode_name(checked_ops[i].opcode) \in affected_opcodes
        /\ OpHistoryId(checked_ops[i], history_id_key) = history_id}

\* C35: check_collision_state leaves checked_ops as it is when it returns
\* False; when it returns True it sets the collision tags on the ops whose
\* opcode family is in affected_opcodes and whose value under history_id_key
\* is history_id, changes nothing else of them, and leaves every other op as
\* it is.
C35_CollisionFrame ==
    \A q \in CollisionKinds : \A history_id \in CollisionIds(engine, q.history_id_key) :
       \E r \in {check_collision_state(engine.collisions, q.history_id_key, history_id,
                                       block_id(engine), engine.checked_ops,
                                       q.affected_opcodes)} :
          /\ Len(r.checked_ops) = Len(engine.checked_ops)
          /\ ~r.rc => r.checked_ops = engine.checked_ops
          /\ r.rc =>
                \A i \in 1..Len(engine.checked_ops) :
                   r.checked_ops[i] =
                      IF i \in Tagged(engine.checked_ops, q.history_id_key, history_id,
                                      q.affected_opcodes)
                      THEN [engine.checked_ops[i] EXCEPT
                               !.collided = TRUE,
                               !.collided_history_id_key = q.history_id_key]
                      ELSE engine.checked_ops[i]

\* two ops were checked and a collision check on the id of one of them
\* returns True: it tags that op and leaves the other one as it is
C35_Witness ==
    /\ Len(engine.checked_ops) = 2
    /\ \E q \in CollisionKinds : \E history_id \in CollisionIds(engine, q.history_id_key) :
       \E r \in {check_collision_state(engine.collisions, q.history_id_key, history_id,
                                       block_id(engine), engine.checked_ops,
                                       q.affected_opcodes)} :
          /\ r.rc
          /\ \E i, j \in 1..2 :
                /\ r.checked_ops[i] # engine.checked_ops[i]
                /\ r.checked_ops[i].collided
                /\ op_get_opcode_name(engine.checked_ops[j].opcode) \in q.affected_opcodes
                /\ r.checked_ops[j] = engine.checked_ops[j]

PreordersOf(e, preorder_hash) == {r \in e.preorders : r.preorder_hash = preorder_hash}

\* C6: no preorder hash has two preorder rows, and the commit of a creation
\* consumes its preorder in that very step: afterwards no row holds the hash
\* and get_name_preorder finds nothing for the (name, sender, recipient).
C6_PreorderConsumed ==
    /\ [](\A r \in engine.preorders : Cardinality(PreordersOf(engine, r.preorder_hash)) <= 1)
    /\ [][(/\ CommitStep
           /\ NextToCommit(engine).opcode \in OPCODE_CREATION_OPS
           /\ ~nameop_is_collided(NextToCommit(engine))
           /\ ~engine'.aborted)
             => LET op == NextToCommit(engine)
                IN /\ PreordersOf(engine, op.preorder_hash) # {}
                   /\ PreordersOf(engine', op.preorder_hash) = {}
                   /\ op.opcode = "NAME_REGISTRATION"
                        => get_name_preorder(engine', op.name, op.sender, op.recipient) = NoRec]_vars

\* a registration was just committed and its preorder is gone
C6_Witness ==
    /\ engine.phase = "commit"
    /\ ~engine.aborted
    /\ engine.ncommitted >= 1
    /\ LET op == engine.checked_ops[engine.ncommitted]
       IN /\ op.opcode = "NAME_REGISTRATION"
          /\ op.preorder # NoRec
          /\ PreordersOf(engine, op.preorder_hash) = {}
          /\ \E r \in engine.name_records : r.name = op.name /\ r.block_number = block_id(engine)

\* the records of a name that are unexpired at a block
LiveRecords(e, name, block) ==
    {r \in e.name_records : r.name = name /\ ~NameExpiredAt(e, r, block)}

\* C7: no name has two live records, at the last finished block or at the
\* block being processed.
C7_OneLiveRecord ==
    \A name \in Names :
        /\ Cardinality(LiveRecords(engine, name, engine.lastblock)) <= 1
        /\ Cardinality(LiveRecords(engine, name, block_id(engine))) <= 1

\* a name was registered again after its first record expired
C7_Witness ==
    \E name \in Names :
        /\ Cardinality({r \in engine.name_records : r.name = name}) = 2
        /\ Cardinality(LiveRecords(engine, name, engine.lastblock)) = 1

\* the rows of a name
RowsOf(e, name) == {r \in e.name_records : r.name = name}

\* what op_check makes of the transaction the engine is given next
CheckedAs(tx) ==
    op_check(engine, NameOp(tx, engine.vtxindex), block_id(engine), engine.checked_ops)

\* C9: a NAME_REGISTRATION of a live name its sender owns is type-cast once to
\* NAME_RENEWAL and gets the verdict of check_renewal; it is committed as a
\* state transition (the row of the name is renewed, no row is added and no
\* preorder is consumed), whereas a NAME_REGISTRATION of a name without a live
\* record stays a registration and its commit adds a row.
C9_RegistrationRenews ==
    /\ [][\A tx \in TxOps :
            (/\ engine.phase = "check"
             /\ tx.opcode = "NAME_REGISTRATION"
             /\ CheckOp(tx))
              => \E r \in {CheckedAs(tx)} :
                    /\ is_name_owner(engine, tx.name, tx.sender)
                         => /\ r.s.casts = 1
                            /\ r.s.count = 2
                            /\ r.s.opcode = "NAME_RENEWAL"
                            /\ r.s.rc = check_renewal(engine,
                                           [NameOp(tx, engine.vtxindex) EXCEPT !.opcode = "NAME_RENEWAL"],
                                           block_id(engine), engine.checked_ops).rc
                            /\ r.s.rc => /\ Len(engine'.checked_ops) = Len(engine.checked_ops) + 1
                                         /\ engine'.checked_ops[Len(engine'.checked_ops)].opcode
                                               = "NAME_RENEWAL"
                    /\ get_name(engine, tx.name, engine.lastblock, FALSE) = NoRec
                         => /\ r.s.casts = 0
                            /\ r.s.rc => engine'.checked_ops[Len(engine'.checked_ops)].opcode
                                            = "NAME_REGISTRATION"]_vars
    /\ [][(CommitStep /\ ~engine'.aborted /\ ~nameop_is_collided(NextToCommit(engine)))
              => \E op \in {NextToCommit(engine)} :
                    /\ op.opcode = "NAME_RENEWAL"
                         => /\ engine'.preorders = engine.preorders
                            /\ Cardinality(engine'.name_records) = Cardinality(engine.name_records)
                            /\ \E rec \in RowsOf(engine', op.name) :
                                  /\ rec.last_renewed = block_id(engine)
                                  /\ rec.block_number < block_id(engine)
                    /\ op.opcode = "NAME_REGISTRATION"
                         => /\ Cardinality(engine'.name_records)
                                  = Cardinality(engine.name_records) + 1
                            /\ \E rec \in RowsOf(engine', op.name) :
                                  rec.block_number = block_id(engine)]_vars

\* a registration by the owner of the name was committed as a renewal
C9_Witness ==
    /\ engine.phase = "commit"
    /\ ~engine.aborted
    /\ engine.ncommitted >= 1
    /\ \E op \in {engine.checked_ops[engine.ncommitted]} :
          /\ op.opcode = "NAME_RENEWAL"
          /\ \E rec \in RowsOf(engine, op.name) :
                /\ rec.last_renewed = block_id(engine)
                /\ rec.block_number < block_id(engine)
                /\ rec.sender = op.sender

\* the preorder rows a creation can be matched with at the block being
\* processed: the rows of its hash and, for a name, younger than the lifetime
\* of the namespace
LivePreorders(e, nameop) ==
    {row \in e.preorders :
        /\ row.preorder_hash = hash_name(IF nameop.opcode = "NAME_REGISTRATION"
                                         THEN nameop.name ELSE nameop.namespace_id,
                                         nameop.sender, nameop.recipient)
        /\ IF nameop.opcode = "NAME_REGISTRATION"
           THEN /\ row.op = "NAME_PREORDER"
                /\ \E ns \in {get_namespace(e, nameop.namespace_id)} :
                      /\ ns # NoRec
                      /\ e.lastblock < row.block_number
                            + ns.lifetime
                              * get_epoch_namespace_lifetime_multiplier(e.lastblock, nameop.namespace_id)
           ELSE row.op = "NAMESPACE_PREORDER"}

\* C10: a creation (NAME_REGISTRATION that stays one, NAMESPACE_REVEAL) is
\* accepted only when a live preorder of its hash is in the database; without
\* one it is rejected and nothing is written, and a name or a namespace gets a
\* row only when an accepted creation with its preorder is committed, so that
\* get_name, get_namespace and get_namespace_reveal keep returning None for it.
C10_CreationNeedsPreorder ==
    /\ [][\A tx \in TxOps :
            (/\ engine.phase = "check"
             /\ tx.opcode \in OPCODE_CREATION_OPS
             /\ CheckOp(tx))
              => \E r \in {CheckedAs(tx)} :
                    /\ Tables(engine') = Tables(engine)
                    /\ engine'.committed = engine.committed
                    /\ (r.s.rc /\ r.s.opcode \in OPCODE_CREATION_OPS)
                          => /\ LivePreorders(engine, r.nameop) # {}
                             /\ r.nameop.preorder \in LivePreorders(engine, r.nameop)
                    /\ (LivePreorders(engine, NameOp(tx, engine.vtxindex)) = {}
                          /\ ~is_name_owner(engine, tx.name, tx.sender))
                          => /\ ~r.s.rc
                             /\ engine'.checked_ops = engine.checked_ops]_vars
    /\ [][\A name \in Names :
            (RowsOf(engine', name) \ RowsOf(engine, name) # {}
               /\ get_name(engine, name, block_id(engine), TRUE) = NoRec)
              => /\ CommitStep
                 /\ NextToCommit(engine).opcode = "NAME_REGISTRATION"
                 /\ NextToCommit(engine).name = name
                 /\ NextToCommit(engine).preorder \in engine.preorders]_vars
    /\ [][\A ns \in NamespaceIds :
            (get_namespace(engine, ns) = NoRec /\ get_namespace_reveal(engine, ns) = NoRec
               /\ (get_namespace(engine', ns) # NoRec \/ get_namespace_reveal(engine', ns) # NoRec))
              => /\ CommitStep
                 /\ NextToCommit(engine).opcode = "NAMESPACE_REVEAL"
                 /\ NextToCommit(engine).namespace_id = ns
                 /\ NextToCommit(engine).preorder \in engine.preorders]_vars

\* a registration of an unregistered name was accepted with its live preorder,
\* after a registration in the same block was rejected
C10_Witness ==
    /\ engine.phase = "check"
    /\ ~engine.aborted
    /\ engine.vtxindex = 2
    /\ Len(engine.checked_ops) = 1
    /\ \E op \in {engine.checked_ops[1]} :
          /\ op.opcode = "NAME_REGISTRATION"
          /\ op.vtxindex = 1
          /\ op.preorder \in LivePreorders(engine, op)
          /\ get_name(engine, op.name, engine.lastblock, TRUE) = NoRec

\* the preorder row of (name, sender, recipient), whatever its age
PreorderRowOf(e, name, sender, recipient) ==
    namedb_get_name_preorder(e, hash_name(name, sender, recipient), e.lastblock)

\* the block from which on a preorder row is too old: P + lifetime * multiplier(L)
PreorderDeadline(e, preorder, name) ==
    preorder.block_number
       + get_namespace(e, get_namespace_from_name(name)).lifetime
           * get_epoch_namespace_lifetime_multiplier(e.lastblock, get_namespace_from_name(name))

\* C33: get_name_preorder(name, sender, recipient) returns a preorder only
\* when no record of the name is unexpired at the current block L, the
\* namespace of the name is READY and L < P + lifetime * multiplier(L), P being
\* the block the preorder was accepted at; when the name is unregistered, the
\* namespace is ready and the preorder has a row, that row is returned iff
\* L < P + lifetime * multiplier(L), so at L = P + lifetime * multiplier(L)
\* the result is None.
C33_PreorderYoungerThanLifetime ==
    \A name \in Names, sender \in Scripts, recipient \in Addrs :
       \E r \in {get_name_preorder(engine, name, sender, recipient)},
          p \in {PreorderRowOf(engine, name, sender, recipient)} :
          /\ r # NoRec
                => /\ LiveRecords(engine, name, engine.lastblock) = {}
                   /\ \E ns \in engine.namespaces :
                         /\ ns.namespace_id = get_namespace_from_name(name)
                         /\ ns.op = "NAMESPACE_READY"
                   /\ r = p
                   /\ engine.lastblock < PreorderDeadline(engine, p, name)
          /\ (/\ p # NoRec
              /\ LiveRecords(engine, name, engine.lastblock) = {}
              /\ is_namespace_ready(engine, get_namespace_from_name(name)))
                => /\ r # NoRec <=> engine.lastblock < PreorderDeadline(engine, p, name)
                   /\ engine.lastblock = PreorderDeadline(engine, p, name) => r = NoRec

\* the current block is P + lifetime * multiplier for the preorder of an
\* unregistered name in a ready namespace, which is returned no more
C33_Witness ==
    \E name \in Names, sender \in Scripts, recipient \in Addrs :
       \E p \in {PreorderRowOf(engine, name, sender, recipient)} :
          /\ p # NoRec
          /\ LiveRecords(engine, name, engine.lastblock) = {}
          /\ is_namespace_ready(engine, get_namespace_from_name(name))
          /\ engine.lastblock = PreorderDeadline(engine, p, name)
          /\ get_name_preorder(engine, name, sender, recipient) = NoRec

\* a preorder of an unregistered name is returned one block before that
C33_WitnessReturned ==
    \E name \in Names, sender \in Scripts, recipient \in Addrs :
       \E p \in {PreorderRowOf(engine, name, sender, recipient)} :
          /\ p # NoRec
          /\ engine.lastblock + 1 = PreorderDeadline(engine, p, name)
          /\ get_name_preorder(engine, name, sender, recipient) = p

\* C12: a NAME_REGISTRATION that comes in the same block as its accepted
\* NAME_PREORDER, at a higher vtxindex, is accepted (so that after the block
\* the name is registered and its preorder consumed), and the check of a
\* preorder flags no earlier op of another hash.
C12_SameBlockRegister ==
    [][\A tx \in TxOps :
          (/\ engine.phase = "check"
           /\ CheckOp(tx))
            => /\ (/\ tx.opcode = "NAME_REGISTRATION"
                   /\ is_namespace_ready(engine, tx.namespace_id)
                   /\ get_name(engine, tx.name, engine.lastblock, TRUE) = NoRec
                   /\ \E i \in DOMAIN engine.checked_ops :
                         /\ engine.checked_ops[i].opcode = "NAME_PREORDER"
                         /\ ~nameop_is_collided(engine.checked_ops[i])
                         /\ engine.checked_ops[i].preorder_hash
                               = hash_name(tx.name, tx.sender, tx.recipient)
                   /\ \A i \in DOMAIN engine.checked_ops :
                         engine.checked_ops[i].opcode = "NAME_REGISTRATION"
                            => engine.checked_ops[i].name # tx.name)
                    => /\ Len(engine'.checked_ops) = Len(engine.checked_ops) + 1
                       /\ engine'.checked_ops[Len(engine'.checked_ops)].opcode = "NAME_REGISTRATION"
                       /\ engine'.checked_ops[Len(engine'.checked_ops)].name = tx.name
               /\ tx.opcode = "NAME_PREORDER"
                    => \A i \in DOMAIN engine.checked_ops :
                          engine.checked_ops[i].preorder_hash
                                # hash_name(tx.name, tx.sender, tx.recipient)
                             => engine'.checked_ops[i] = engine.checked_ops[i]]_vars

(***************************************************************************)
(* Part III : op_check on its own, with validators that may answer         *)
(* anything: reject, accept, or accept with the opcode rewritten.          *)
(***************************************************************************)

\* the opcodes CHECK_METHODS knows
Opcodes ==
    {"NAME_PREORDER", "NAME_REGISTRATION", "NAME_RENEWAL", "NAME_UPDATE",
     "NAME_TRANSFER", "NAME_REVOKE", "NAME_IMPORT", "NAMESPACE_PREORDER",
     "NAMESPACE_REVEAL", "NAMESPACE_READY", "ANNOUNCE"}

OpCheckInit == \E opcode \in Opcodes : oc = [s |-> OpCheckStart(opcode), result |-> "running"]

\* one pass of the loop: check_method answers rc and leaves new_opcode in the clone
OpCheckIterate(rc, new_opcode) ==
    /\ oc.result = "running"
    /\ OpCheckContinues(oc.s)
    /\ oc' = [oc EXCEPT !.s = OpCheckStep(oc.s, rc, new_opcode)]

\* the loop is left: the assert on count, then return rc
OpCheckReturn ==
    /\ oc.result = "running"
    /\ ~OpCheckContinues(oc.s)
    /\ oc' = [oc EXCEPT !.result = OpCheckOutcome(oc.s)]

\* op_check is called for the next op; after sys.exit(1) there is no next op
OpCheckCall(opcode) ==
    /\ oc.result \in {"accept", "reject"}
    /\ oc' = [s |-> OpCheckStart(opcode), result |-> "running"]

OpCheckNext ==
    \/ \E rc \in BOOLEAN, new_opcode \in Opcodes :
          OpCheckIterate(rc, new_opcode) /\ UNCHANGED <<hvars, pvars>>
    \/ OpCheckReturn /\ UNCHANGED <<hvars, pvars>>
    \/ \E opcode \in Opcodes : OpCheckCall(opcode) /\ UNCHANGED <<hvars, pvars>>

OpCheckSpecInit == HandleInit /\ PipelineIdle /\ OpCheckInit

OpCheckSpec == OpCheckSpecInit /\ [][OpCheckNext]_vars

\* C8: op_check accepts an op after no or one type-cast only; after a second
\* type-cast it ends in abort, never in accept; the validators are run at most
\* 3 times, and once the loop is left the call ends in accept, reject or abort.
C8_OneTypeCast ==
    /\ oc.s.count <= 3
    /\ oc.result \in {"running", "accept", "reject", "abort"}
    /\ oc.result = "accept" => (oc.s.casts <= 1 /\ oc.s.rc)
    /\ (oc.s.casts >= 2 /\ oc.result # "running") => oc.result = "abort"
    /\ (oc.result = "running" /\ ~OpCheckContinues(oc.s))
          => OpCheckOutcome(oc.s) \in {"accept", "reject", "abort"}

\* op_check ended in abort after the opcode was rewritten twice
C8_Witness == oc.result = "abort" /\ oc.s.casts = 2 /\ oc.s.count = 3

(***************************************************************************)
(* Part IV : the life of one name, with registrations to any recipient.    *)
(* The pipeline is the one of Part II; the block stream starts when the    *)
(* namespace is ready and carries the operations on the first name of the  *)
(* pool.                                                                   *)
(***************************************************************************)

MaxNameBlock == 2

\* the lifetime the namespace of this part was revealed with
NAME_LIFE_LIFETIME == 3

\* the transactions on the name
NameLifeTxOps(e) ==
    {[opcode |-> o, name |-> NamePool[1], namespace_id |-> get_namespace_from_name(NamePool[1]),
      sender |-> s, recipient |-> r, paid |-> TRUE, lifetime |-> 0] :
        o \in {"NAME_PREORDER", "NAME_REGISTRATION"}, s \in Scripts, r \in Addrs}

\* the name preordered by the first wallet for the second and registered,
\* in blocks of their own
NameUpTo(e) ==
    CHOOSE y \in
      {RunBlock(e1, <<[NameTx("NAME_REGISTRATION", NamePool[1]) EXCEPT !.recipient = 2]>>) :
         e1 \in {RunBlock(e, <<[NameTx("NAME_PREORDER", NamePool[1]) EXCEPT !.recipient = 2]>>)}} : TRUE

\* the stream starts when the namespace is ready, or when the name is registered
NameLifeInit ==
    /\ HandleInit
    /\ OpCheckIdle
    /\ \E e1 \in {NamespaceUp(EmptyEngine, NAME_LIFE_LIFETIME)} :
       \E e2 \in {NameUpTo(e1)} :
       \E e \in {e1, e2} : engine = e /\ peer = e
    /\ stream = MaxNameBlock

NameLifeNext ==
    \/ \E tx \in NameLifeTxOps(engine) : CheckOp(tx) /\ UNCHANGED <<hvars, ovars>>
    \/ EndCheck /\ UNCHANGED <<hvars, ovars>>
    \/ CommitOp /\ UNCHANGED <<hvars, ovars>>
    \/ CommitFinished /\ UNCHANGED <<hvars, ovars>>

NameLifeSpec == NameLifeInit /\ [][NameLifeNext]_vars

\* C11: when a NAME_REGISTRATION that was accepted with the preorder of sender
\* S for recipient R (preordered in an earlier block) is committed at block H',
\* get_name returns a record whose address is R and whose sender is the
\* payment script of R, first registered and last renewed at H', and
\* get_name_preorder(name, S, R) returns None.
C11_RegisteredToRecipient ==
    [][(/\ CommitStep
        /\ NextToCommit(engine).opcode = "NAME_REGISTRATION"
        /\ ~nameop_is_collided(NextToCommit(engine)))
          => \E op \in {NextToCommit(engine)} :
                /\ ~engine'.aborted
                /\ op.preorder.sender = op.sender
                /\ op.preorder.block_number < block_id(engine)
                /\ \E rec \in {get_name(engine', op.name, block_id(engine), FALSE)} :
                      /\ rec # NoRec
                      /\ rec.address = op.recipient
                      /\ rec.sender = make_payment_script(op.recipient)
                      /\ rec.first_registered = block_id(engine)
                      /\ rec.last_renewed = block_id(engine)
                /\ get_name_preorder(engine', op.name, op.sender, op.recipient) = NoRec
                /\ namedb_get_name_preorder(engine', op.preorder_hash, block_id(engine)) = NoRec]_vars

\* a name preordered by S for another address R was registered
C11_Witness ==
    /\ engine.phase = "commit"
    /\ ~engine.aborted
    /\ engine.ncommitted >= 1
    /\ \E op \in {engine.checked_ops[engine.ncommitted]} :
          /\ op.opcode = "NAME_REGISTRATION"
          /\ op.recipient # AddrOf(op.sender)
          /\ op.preorder # NoRec
          /\ \E rec \in {get_name(engine, op.name, block_id(engine), FALSE)} :
                /\ rec # NoRec
                /\ rec.address = op.recipient
                /\ rec.first_registered = block_id(engine)

\* C13: the commit of a NAME_RENEWAL at block B sets last_renewed of the
\* name's record to B and leaves first_registered, the address and the sender
\* script as they were; no record was last renewed before it was first
\* registered.
C13_RenewalKeepsRecord ==
    /\ [](\A rec \in engine.name_records : rec.last_renewed >= rec.first_registered)
    /\ [][(CommitStep /\ NextToCommit(engine).opcode = "NAME_RENEWAL")
             => \E op \in {NextToCommit(engine)} :
                \E old \in {get_name(engine, op.name, block_id(engine), TRUE)},
                   new \in {get_name(engine', op.name, block_id(engine), TRUE)} :
                   /\ ~engine'.aborted
                   /\ old # NoRec /\ new # NoRec
                   /\ new.last_renewed = block_id(engine)
                   /\ new.first_registered = old.first_registered
                   /\ new.address = old.address
                   /\ new.sender = old.sender
                   /\ new.last_renewed >= new.first_registered]_vars

\* the owner renewed the name in a block after the one it was registered in,
\* naming another address in the transaction
C13_Witness ==
    /\ engine.phase = "commit"
    /\ ~engine.aborted
    /\ engine.ncommitted >= 1
    /\ \E op \in {engine.checked_ops[engine.ncommitted]} :
          /\ op.opcode = "NAME_RENEWAL"
          /\ \E rec \in {get_name(engine, op.name, block_id(engine), TRUE)} :
                /\ rec # NoRec
                /\ rec.last_renewed = block_id(engine)
                /\ rec.first_registered < rec.last_renewed
                /\ rec.sender = op.sender
                /\ rec.address # op.recipient

\* the heights the queries are asked at
MaxHeight == 12
Heights == 0..MaxHeight

C15_InGracePeriod ==
    \A name \in Names : \A H \in Heights :
       \E rec \in {get_name(engine, name, H, TRUE)},
          ns \in {get_namespace(engine, get_namespace_from_name(name))} :
          (rec # NoRec /\ ns # NoRec)
             => \E d \in {get_name_deadlines(rec, ns, H)} :
                   (d.expire_block <= H /\ H < d.renewal_deadline)
                      => is_name_in_grace_period(engine, name, H)

\* C38: is_name_in_grace_period(N, H) is true only if get_name(N, H) without
\* include_expired returns a record, that is only if is_name_expired(N, H) is
\* false; for a name that the lookup at H does not return it is false.
C38_GraceOnlyIfFound ==
    \A name \in Names : \A H \in Heights :
       /\ is_name_in_grace_period(engine, name, H)
            => /\ get_name(engine, name, H, FALSE) # NoRec
               /\ ~is_name_expired(engine, name, H)
       /\ get_name(engine, name, H, FALSE) = NoRec
            => ~is_name_in_grace_period(engine, name, H)

\* a registered name at a height between its expire block and its renewal
\* deadline: the lookup does not return it and it is not reported in grace
C38_Witness ==
    \E name \in Names : \E H \in Heights :
       \E rec \in {get_name(engine, name, H, TRUE)},
          ns \in {get_namespace(engine, get_namespace_from_name(name))} :
          /\ rec # NoRec /\ ns # NoRec
          /\ get_name_deadlines(rec, ns, H).expire_block <= H
          /\ H < get_name_deadlines(rec, ns, H).renewal_deadline
          /\ get_name(engine, name, H, FALSE) = NoRec
          /\ is_name_expired(engine, name, H)
          /\ ~is_name_in_grace_period(engine, name, H)

C17_MissingNameNotExpired ==
    \A name \in Names : \A H \in Heights :
       get_name(engine, name, H, TRUE) = NoRec => ~is_name_expired(engine, name, H)

\* C18: the commit of a NAMESPACE_REVEAL leaves the namespace with a record
\* whose op is NAMESPACE_REVEAL, found by get_namespace_reveal and not by
\* get_namespace; the commit of a NAMESPACE_READY leaves it found by
\* get_namespace and not by get_namespace_reveal; no namespace is both
\* revealed and ready; and a ready namespace is ready after every step.
C18_NamespaceLifecycle ==
    /\ [](\A ns \in NamespaceIds :
             ~(is_namespace_revealed(engine, ns) /\ is_namespace_ready(engine, ns)))
    /\ [][\A ns \in NamespaceIds :
             /\ is_namespace_ready(engine, ns) => is_namespace_ready(engine', ns)
             /\ (/\ CommitStep
                 /\ ~nameop_is_collided(NextToCommit(engine))
                 /\ NextToCommit(engine).namespace_id = ns
                 /\ NextToCommit(engine).opcode = "NAMESPACE_REVEAL")
                  => /\ ~engine'.aborted
                     /\ get_namespace_op_state(engine', ns, block_id(engine)).op = "NAMESPACE_REVEAL"
                     /\ get_namespace_reveal(engine', ns) # NoRec
                     /\ get_namespace(engine', ns) = NoRec
             /\ (/\ CommitStep
                 /\ ~nameop_is_collided(NextToCommit(engine))
                 /\ NextToCommit(engine).namespace_id = ns
                 /\ NextToCommit(engine).opcode = "NAMESPACE_READY")
                  => /\ ~engine'.aborted
                     /\ get_namespace(engine', ns) # NoRec
                     /\ get_namespace_reveal(engine', ns) = NoRec]_vars

\* the namespace was preordered, revealed and made ready in three successive
\* blocks, the last of which is being committed
C18_Witness ==
    /\ engine.phase = "commit"
    /\ ~engine.aborted
    /\ engine.ncommitted >= 1
    /\ engine.lastblock = 2
    /\ engine.checked_ops[engine.ncommitted].opcode = "NAMESPACE_READY"
    /\ \E ns \in {get_namespace(engine, engine.checked_ops[engine.ncommitted].namespace_id)} :
          /\ ns # NoRec
          /\ ns.reveal_block = 2
          /\ ns.ready_block = 3
    /\ get_namespace_reveal(engine, engine.checked_ops[engine.ncommitted].namespace_id) = NoRec

\* ==========================================================================
\* Part V.  Updates, transfers and revocations of a registered name
\* ==========================================================================

NumValues == 1
ValueHashes == {<<"value", v>> : v \in 1..NumValues}

\* the blocks whose consensus hash a sender binds an update or a transfer to:
\* the last blocks of the window and the block just before it
BoundBlocks(e) ==
    {b \in 1..e.lastblock : b >= e.lastblock - VALID_TRANSACTION_WINDOW}

\* the transactions of the stream: a revocation, a renewal, an update or a
\* transfer of the first name by either wallet
NameOpsTxOps(e) ==
    {[opcode |-> o, name |-> NamePool[1], namespace_id |-> get_namespace_from_name(NamePool[1]),
      sender |-> s, recipient |-> AddrOf(s), paid |-> TRUE, lifetime |-> 0] :
        o \in {"NAME_REVOKE", "NAME_REGISTRATION"}, s \in Scripts}
    \cup
    {[opcode |-> "NAME_UPDATE", name |-> NoName, namespace_id |-> NoName,
      sender |-> s, recipient |-> AddrOf(s), paid |-> TRUE, lifetime |-> 0,
      name_consensus_hash |-> hash256_trunc128(NamePool[1], ConsensusHashAt(e, b)),
      update_hash |-> v] :
        s \in Scripts, b \in BoundBlocks(e), v \in ValueHashes}
    \cup
    {[opcode |-> "NAME_TRANSFER", name |-> NoName, namespace_id |-> NoName,
      sender |-> s, recipient |-> CHOOSE a \in Addrs : a # AddrOf(s),
      paid |-> TRUE, lifetime |-> 0,
      name_consensus_hash |-> hash256_trunc128(NamePool[1], ConsensusHashAt(e, b))] :
        s \in Scripts, b \in BoundBlocks(e)}

\* e is an engine with the first name registered to wallet 2, which revokes it
\* in a block of its own
NameRevoked(e) ==
    CHOOSE y \in
      {RunBlock(e, <<[NameTx("NAME_REVOKE", NamePool[1]) EXCEPT
                         !.sender = make_payment_script(2), !.recipient = 2]>>)} : TRUE

\* the stream starts when the name is registered, or when it was revoked
NameOpsInit ==
    /\ HandleInit
    /\ OpCheckIdle
    /\ \E e1 \in {NameUpTo(NamespaceUp(EmptyEngine, NAME_LIFE_LIFETIME))} :
       \E e2 \in {NameRevoked(e1)} :
       \E e \in {e1, e2} : engine = e /\ peer = e
    /\ stream = MaxNameBlock

NameOpsNext ==
    \/ \E tx \in NameOpsTxOps(engine) : CheckOp(tx) /\ UNCHANGED <<hvars, ovars>>
    \/ EndCheck /\ UNCHANGED <<hvars, ovars>>
    \/ CommitOp /\ UNCHANGED <<hvars, ovars>>
    \/ CommitFinished /\ UNCHANGED <<hvars, ovars>>

NameOpsSpec == NameOpsInit /\ [][NameOpsNext]_vars

\* C37: is_name_owner(name, sender) is true only if a record of the name is
\* unexpired at the current block, is not revoked and has the sender's script;
\* once the record of the name at the current block is revoked, is_name_owner
\* is false for every sender, from the commit of the NAME_REVOKE on.
C37_OwnerOfLiveUnrevokedName ==
    /\ [](\A name \in Names, sender \in Scripts :
             /\ is_name_owner(engine, name, sender)
                  => \E rec \in engine.name_records :
                        /\ rec.name = name
                        /\ ~NameExpiredAt(engine, rec, engine.lastblock)
                        /\ ~rec.revoked
                        /\ rec.sender = sender
             /\ (\E rec \in LiveRecords(engine, name, engine.lastblock) : rec.revoked)
                  => ~is_name_owner(engine, name, sender))
    /\ [][(/\ CommitStep
           /\ ~engine'.aborted
           /\ NextToCommit(engine).opcode = "NAME_REVOKE")
            => \A sender \in Scripts :
                  ~is_name_owner(engine', NextToCommit(engine).name, sender)]_vars

\* the owner of a name has revoked it in this block: the revoke is committed,
\* the record is unexpired and nobody owns the name
C37_Witness ==
    /\ engine.phase = "commit"
    /\ ~engine.aborted
    /\ engine.ncommitted >= 1
    /\ \E op \in {engine.checked_ops[engine.ncommitted]} :
          /\ op.opcode = "NAME_REVOKE"
          /\ \E rec \in LiveRecords(engine, op.name, engine.lastblock) :
                rec.revoked /\ rec.sender = op.sender
          /\ is_name_owner(engine.boundary @@ [lastblock |-> engine.lastblock], op.name, op.sender)
          /\ \A sender \in Scripts : ~is_name_owner(engine, op.name, sender)

\* C19: no committed op changes the address, the value hash or the revoked
\* flag of a name whose record is revoked.
C19_RevokedIsFrozen ==
    [][\A name \in Names :
          \E old \in {get_name(engine, name, block_id(engine), TRUE)} :
             (/\ CommitStep
              /\ ~engine'.aborted
              /\ old # NoRec
              /\ old.revoked)
               => \E new \in {get_name(engine', name, block_id(engine), TRUE)} :
                     /\ new # NoRec
                     /\ new.revoked
                     /\ new.address = old.address
                     /\ new.value_hash = old.value_hash]_vars

\* the blocks of the valid-transaction window that ends at block_id and that
\* have a consensus hash
WindowBlocks(e, block) ==
    {b \in 1..Len(e.snapshots) : b >= block - VALID_TRANSACTION_WINDOW /\ b <= block}

\* the hashes a lookup is asked for: every name bound to every block's
\* consensus hash, and to no consensus hash at all
AskedHashes(e) ==
    {hash256_trunc128(name, ConsensusHashAt(e, b)) : name \in Names, b \in 0..Len(e.snapshots)}

\* C20: get_name_from_name_consensus_hash(h, sender, block_id) returns
\* (name, ch) only if the sender owns name, ch is the consensus hash of a block
\* of the window that ends at block_id and h is the hash of name and ch, and
\* (None, None) exactly when there is no such name and block.  An update or a
\* transfer bound to the consensus hash of a block before the window is
\* rejected; one the owner binds to the hash of the last block is accepted.
C20_NameFromConsensusHash ==
    /\ [](\A sender \in Scripts : \A h \in AskedHashes(engine) :
             \E r \in {get_name_from_name_consensus_hash(engine, h, sender, block_id(engine))} :
                /\ r.name # NoName
                     => /\ is_name_owner(engine, r.name, sender)
                        /\ \E b \in WindowBlocks(engine, block_id(engine)) :
                              r.consensus_hash = get_consensus_at(engine, b)
                        /\ h = hash256_trunc128(r.name, r.consensus_hash)
                /\ r.name = NoName
                     => /\ r.consensus_hash = NoHash
                        /\ ~\E name \in Names, b \in WindowBlocks(engine, block_id(engine)) :
                              /\ is_name_owner(engine, name, sender)
                              /\ h = hash256_trunc128(name, get_consensus_at(engine, b)))
    /\ [][\A tx \in NameOpsTxOps(engine) :
             (/\ tx.opcode \in {"NAME_UPDATE", "NAME_TRANSFER"}
              /\ engine.phase = "check"
              /\ CheckOp(tx))
               => \A name \in Names, b \in 1..engine.lastblock :
                     tx.name_consensus_hash = hash256_trunc128(name, get_consensus_at(engine, b))
                        => /\ b < block_id(engine) - VALID_TRANSACTION_WINDOW
                                => engine'.checked_ops = engine.checked_ops
                           /\ (b = engine.lastblock /\ is_name_owner(engine, name, tx.sender))
                                => /\ Len(engine'.checked_ops) = Len(engine.checked_ops) + 1
                                   /\ \E op \in {engine'.checked_ops[Len(engine'.checked_ops)]} :
                                         /\ op.opcode = tx.opcode
                                         /\ op.name = name
                                         /\ op.consensus_hash = get_consensus_at(engine, b)]_vars

\* the owner's update, bound to the consensus hash of the last block, was
\* accepted, and the same hash bound to the block before the window finds
\* no name
C20_Witness ==
    /\ engine.phase = "check"
    /\ Len(engine.checked_ops) >= 1
    /\ \E op \in {engine.checked_ops[Len(engine.checked_ops)]} :
          /\ op.opcode = "NAME_UPDATE"
          /\ op.name \in Names
          /\ op.consensus_hash = get_consensus_at(engine, engine.lastblock)
          /\ is_name_owner(engine, op.name, op.sender)
          /\ get_name_from_name_consensus_hash(engine,
                 hash256_trunc128(op.name, op.consensus_hash), op.sender,
                 block_id(engine)).name = op.name
          /\ \E b \in 1..engine.lastblock :
                /\ b < block_id(engine) - VALID_TRANSACTION_WINDOW
                /\ get_name_from_name_consensus_hash(engine,
                       hash256_trunc128(op.name, get_consensus_at(engine, b)), op.sender,
                       block_id(engine)).name = NoName

\* ==========================================================================
\* Part VI.  Name imports into a revealed namespace
\* ==========================================================================

\* the wallets and the first child of each wallet's key
ImportAddrs == Addrs \cup {ChildAddress(a, 0) : a \in Addrs}

\* the transactions of the stream: imports of the names by a wallet or by a
\* child key, to wallet 2, and the namespace's NAMESPACE_READY by either wallet
ImportTxOps ==
    {[opcode |-> "NAME_IMPORT", name |-> n, namespace_id |-> get_namespace_from_name(n),
      sender |-> make_payment_script(a), recipient |-> 2, paid |-> TRUE, lifetime |-> 0] :
        n \in Names, a \in ImportAddrs}
    \cup
    {[opcode |-> "NAMESPACE_READY", name |-> NoName, namespace_id |-> ns,
      sender |-> s, recipient |-> AddrOf(s), paid |-> TRUE, lifetime |-> NAME_LIFE_LIFETIME] :
        ns \in NamespaceIds, s \in Scripts}

\* e is an empty engine: wallet 1 preorders and reveals the namespace in
\* blocks of their own
NamespaceRevealed(e) ==
    CHOOSE y \in
      {RunBlock(e1, <<NamespaceTx("NAMESPACE_REVEAL", "test", NAME_LIFE_LIFETIME)>>) :
         e1 \in {RunBlock(e, <<NamespaceTx("NAMESPACE_PREORDER", "test", NAME_LIFE_LIFETIME)>>)}} : TRUE

\* the keychain cache of the namespace when the stream starts: none, the one
\* an earlier run wrote, or one that cannot be read
ImportCaches ==
    {NoFile, CachedFile(build_import_keychain(EmptyDir, "test", 1).child_addrs), UnreadableFile}

\* the stream starts when the namespace is revealed
ImportInit ==
    /\ HandleInit
    /\ OpCheckIdle
    /\ \E e1 \in {NamespaceRevealed(EmptyEngine)} :
       \E f \in ImportCaches :
       \E e \in {[e1 EXCEPT !.working_dir = [EmptyDir EXCEPT !["test"] = f]]} :
          engine = e /\ peer = e
    /\ stream = MaxNameBlock

ImportNext ==
    \/ \E tx \in ImportTxOps : CheckOp(tx) /\ UNCHANGED <<hvars, ovars>>
    \/ EndCheck /\ UNCHANGED <<hvars, ovars>>
    \/ CommitOp /\ UNCHANGED <<hvars, ovars>>
    \/ CommitFinished /\ UNCHANGED <<hvars, ovars>>

ImportSpec == ImportInit /\ [][ImportNext]_vars

\* whether the check of tx appended an op to checked_ops
Accepted(tx) ==
    /\ engine.phase = "check"
    /\ CheckOp(tx)
    /\ ~engine'.aborted
    /\ Len(engine'.checked_ops) = Len(engine.checked_ops) + 1

\* C21 (a): a NAME_IMPORT is accepted only while the database has its
\* namespace revealed and not ready, and only from an address of the
\* namespace's import keychain; the commit of an accepted import creates the
\* record without touching a preorder.
C21_ImportWhileRevealed ==
    [][/\ \A tx \in ImportTxOps :
             (tx.opcode = "NAME_IMPORT" /\ Accepted(tx))
                => /\ is_namespace_revealed(engine, tx.namespace_id)
                   /\ ~is_namespace_ready(engine, tx.namespace_id)
                   /\ AddrOf(tx.sender) \in
                        build_import_keychain(EmptyDir, tx.namespace_id,
                            get_namespace_reveal(engine, tx.namespace_id).recipient).child_addrs
                   /\ engine'.checked_ops[Len(engine'.checked_ops)].preorder = NoRec
       /\ (CommitStep /\ NextToCommit(engine).opcode = "NAME_IMPORT")
             => /\ ~engine'.aborted
                /\ engine'.preorders = engine.preorders
                /\ \E rec \in {get_name(engine', NextToCommit(engine).name, block_id(engine), FALSE)} :
                      /\ rec # NoRec
                      /\ rec.op = "NAME_IMPORT"
                      /\ rec.address = NextToCommit(engine).recipient
                      /\ rec.block_number = block_id(engine)]_vars

\* C21 (b): once a NAMESPACE_READY of a namespace is accepted, no NAME_IMPORT
\* into that namespace is accepted.
C21_NoImportAfterReady ==
    [][\A tx \in ImportTxOps :
          (/\ tx.opcode = "NAME_IMPORT"
           /\ \/ is_namespace_ready(engine, tx.namespace_id)
              \/ \E i \in DOMAIN engine.checked_ops :
                    /\ engine.checked_ops[i].opcode = "NAMESPACE_READY"
                    /\ engine.checked_ops[i].namespace_id = tx.namespace_id)
            => ~Accepted(tx)]_vars

\* C30: whenever the keychain cache of a namespace exists and cannot be read,
\* load_import_keychain aborts the process and so does build_import_keychain.
C30_CorruptCacheIsFatal ==
    \A ns \in NamespaceIds :
       (engine.working_dir[ns].exists /\ ~engine.working_dir[ns].readable)
          => /\ load_import_keychain(engine.working_dir, ns).fatal
             /\ \A a \in Addrs : build_import_keychain(engine.working_dir, ns, a).fatal

\* ==========================================================================
\* Part VII.  commit_operation called with any op
\* ==========================================================================

\* the ops commit_operation is handed as accepted: preorders with a fresh hash
\* and with the hash of a row of the table, flagged or not; creations with a
\* preorder of the table and without one; imports; transitions of names that
\* exist or not; an op of no commit category and an op without an opcode
CommitCallOps(e) ==
    LET v == Len(e.checked_ops)
        Op(opcode, name, preorder_hash, preorder, collided) ==
            [NameOp([NameTx(opcode, name) EXCEPT !.lifetime = NAME_LIFE_LIFETIME], v) EXCEPT
                !.preorder_hash = preorder_hash, !.preorder = preorder,
                !.collided = collided,
                !.collided_history_id_key = IF collided THEN "preorder_hash" ELSE ""]
    IN {Op("NAME_PREORDER", n, hash_name(n, make_payment_script(1), 1), NoRec, c) :
           n \in Names, c \in BOOLEAN}
       \cup
       {Op("NAME_REGISTRATION", r.preorder_hash[1], r.preorder_hash, r, FALSE) :
           r \in {q \in e.preorders : q.op = "NAME_PREORDER"}}
       \cup
       {Op(o, n, NoHash, NoRec, FALSE) :
           o \in {"NAME_REGISTRATION", "NAME_IMPORT", "NAME_RENEWAL", "ANNOUNCE", NoOpcode},
           n \in Names}

\* e is an engine with the namespace up: wallet 1 preorders the name in a
\* block of its own
NamePreordered(e, name) ==
    CHOOSE y \in {RunBlock(e, <<NameTx("NAME_PREORDER", name)>>)} : TRUE

\* the calls start over a database with a live preorder, of the first name or,
\* the first name being registered, of the second
CommitCallInit ==
    /\ HandleInit
    /\ OpCheckIdle
    /\ \E e0 \in {NamespaceUp(EmptyEngine, NAME_LIFE_LIFETIME)} :
       \E e1 \in {NamePreordered(e0, NamePool[1])} :
       \E e2 \in {NamePreordered(NameUp(e0), NamePool[NumNames])} :
       \E e \in {e1, e2} : engine = e /\ peer = e
    /\ stream = MaxNameBlock

\* commit_operation is called, in the commit phase of a block, with an op
\* that joins the ops of the block
CommitCall(op) ==
    /\ Running
    /\ engine.phase = "commit"
    /\ engine.ncommitted = Len(engine.checked_ops)
    /\ Len(engine.checked_ops) < MaxTx
    /\ engine' = process_commit([engine EXCEPT !.checked_ops = Append(@, op)])
    /\ peer' = engine'
    /\ UNCHANGED stream

CommitCallNext ==
    \/ \E op \in CommitCallOps(engine) : CommitCall(op) /\ UNCHANGED <<hvars, ovars>>
    \/ EndCheck /\ UNCHANGED <<hvars, ovars>>
    \/ CommitFinished /\ UNCHANGED <<hvars, ovars>>

CommitCallSpec == CommitCallInit /\ [][CommitCallNext]_vars

\* the step is a call of commit_operation, and the op it was called with
CallStep ==
    /\ engine.phase = "commit"
    /\ ~engine.aborted
    /\ Len(engine'.checked_ops) = Len(engine.checked_ops) + 1
Called == engine'.checked_ops[Len(engine'.checked_ops)]

\* C24: when the process was aborted while an op of a block was committed,
\* the database holds none of that block's ops: what is committed is the
\* database as of the last finished block.
C24_AbortLeavesNoOp ==
    engine.aborted => engine.committed = engine.boundary

\* C27: the commit of a preorder whose preorder_hash has a row in the
\* preorders table aborts the process and leaves the tables, that row
\* included, as they were.
C27_DuplicatePreorderAborts ==
    [][(/\ CallStep
        /\ Called.opcode \in OPCODE_PREORDER_OPS
        /\ ~nameop_is_collided(Called)
        /\ PreordersOf(engine, Called.preorder_hash) # {})
          => /\ engine'.aborted
             /\ Tables(engine') = Tables(engine)
             /\ engine'.committed = engine.committed
             /\ PreordersOf(engine', Called.preorder_hash) = PreordersOf(engine, Called.preorder_hash)]_vars

\* a preorder of an earlier block is in the table, and the commit of a
\* preorder with its hash aborted the process
C27_Witness ==
    /\ engine.aborted
    /\ engine.phase = "commit"
    /\ Len(engine.checked_ops) >= 1
    /\ \E op \in {engine.checked_ops[Len(engine.checked_ops)]} :
          /\ op.opcode = "NAME_PREORDER"
          /\ ~nameop_is_collided(op)
          /\ \E r \in engine.preorders :
                /\ r.preorder_hash = op.preorder_hash
                /\ r.block_number < block_id(engine)

\* C28: the commit of a creation that carries no preorder and is not a
\* NAME_IMPORT aborts the process, and no name or namespace record is created.
C28_CreationWithoutPreorderAborts ==
    [][(/\ CallStep
        /\ Called.opcode \in OPCODE_CREATION_OPS
        /\ Called.opcode \notin OPCODE_NAME_STATE_IMPORTS
        /\ ~nameop_is_collided(Called)
        /\ Called.preorder = NoRec)
          => /\ engine'.aborted
             /\ engine'.name_records = engine.name_records
             /\ engine'.namespaces = engine.namespaces
             /\ engine'.committed = engine.committed]_vars

\* the commit of a registration without a preorder aborted the process; the
\* name has no record
C28_Witness ==
    /\ engine.aborted
    /\ engine.phase = "commit"
    /\ Len(engine.checked_ops) >= 1
    /\ \E op \in {engine.checked_ops[Len(engine.checked_ops)]} :
          /\ op.opcode = "NAME_REGISTRATION"
          /\ op.preorder = NoRec
          /\ get_name(engine, op.name, block_id(engine), TRUE) = NoRec

\* C29: commit_operation called with an op that has no opcode, or whose
\* opcode is no preorder, creation or transition, ends with the process
\* aborted and writes nothing: the tables are as they were or, the writes of
\* the open transaction discarded, as they were committed, and what is
\* committed is what was committed.
C29_UnknownOpcodeAborts ==
    [][(/\ CallStep
        /\ Called.opcode \notin
             OPCODE_PREORDER_OPS \cup OPCODE_CREATION_OPS \cup OPCODE_TRANSITION_OPS)
          => /\ engine'.aborted
             /\ Tables(engine') \in {Tables(engine), engine.committed}
             /\ engine'.committed = engine.committed]_vars

\* the process was aborted by the commit of an op without an opcode, after an
\* op of the same block was committed
C29_Witness ==
    /\ engine.aborted
    /\ engine.phase = "commit"
    /\ Len(engine.checked_ops) >= 2
    /\ engine.checked_ops[Len(engine.checked_ops)].opcode = NoOpcode
    /\ engine.ncommitted = Len(engine.checked_ops) - 1

\* ==========================================================================
\* Part VIII.  The consensus fields of the opcodes
\* ==========================================================================

\* CONSENSUS_FIELDS_REQUIRED of the nameset package
CONSENSUS_FIELDS_REQUIRED == {"txid", "vtxindex", "op", "opcode", "block_number"}

\* SERIALIZE_FIELDS: the FIELDS of each operation module
SERIALIZE_FIELDS ==
    [opcode \in Opcodes |-> op_get_consensus_fields(opcode) \cup CONSENSUS_FIELDS_REQUIRED]

\* the tables the package may be built with: an operation module has its
\* FIELDS, or FIELDS without one of the required fields, or no FIELDS
SerializeTables ==
    {SERIALIZE_FIELDS}
    \cup {[SERIALIZE_FIELDS EXCEPT ![opcode] = {}] : opcode \in Opcodes}
    \cup {[SERIALIZE_FIELDS EXCEPT ![opcode] = @ \ {field}] :
             opcode \in Opcodes, field \in CONSENSUS_FIELDS_REQUIRED}

\* the built-in sanity check of the package on SERIALIZE_FIELDS: FALSE is
\* the raise that does not allow the package to be imported
sanity_check(serialize_fields) ==
    \A opcode \in DOMAIN serialize_fields :
       \/ serialize_fields[opcode] = {}
       \/ \A required_consensus_field \in CONSENSUS_FIELDS_REQUIRED :
             required_consensus_field \in serialize_fields[opcode]

\* the fields a canonical record may carry
AllFields == UNION {SERIALIZE_FIELDS[opcode] : opcode \in Opcodes}

NoExtract == [opcode |-> NoOpcode, given |-> {}, aborted |-> FALSE, ret |-> EmptyDict]

ConsensusFieldsInit ==
    /\ HandleInit
    /\ PipelineIdle
    /\ \E serialize_fields \in SerializeTables :
          oc = [serialize_fields |-> serialize_fields, imported |-> "no", call |-> NoExtract]

\* import of the operations package: the sanity checks run
ImportOperations ==
    /\ oc.imported = "no"
    /\ oc' = [oc EXCEPT !.imported = IF sanity_check(oc.serialize_fields)
                                     THEN "yes" ELSE "raised"]

\* extract_consensus_op(opcode, op_data, processed_op_data, block) with a
\* canonical record that has the fields given
ExtractConsensusOp(opcode, given) ==
    /\ oc.imported = "yes"
    /\ \E x \in {extract_fields(oc.serialize_fields[opcode], [field \in given |-> field])} :
          oc' = [oc EXCEPT !.call = [opcode |-> opcode, given |-> given,
                                     aborted |-> x.aborted, ret |-> x.ret]]

ConsensusFieldsNext ==
    \/ ImportOperations /\ UNCHANGED <<hvars, pvars>>
    \/ \E opcode \in Opcodes, field \in AllFields :
          \E given \in {AllFields, AllFields \ {field}} :
             ExtractConsensusOp(opcode, given) /\ UNCHANGED <<hvars, pvars>>

ConsensusFieldsSpec == ConsensusFieldsInit /\ [][ConsensusFieldsNext]_vars

\* what extract_consensus_op owes for the call it made
ExtractedAsListed ==
    oc.call.opcode # NoOpcode =>
       LET fields == oc.serialize_fields[oc.call.opcode]
       IN /\ oc.call.aborted <=> ~(fields \subseteq oc.call.given)
          /\ ~oc.call.aborted => DOMAIN oc.call.ret = fields

\* C23 (a): the consensus record extract_consensus_op returns has exactly the
\* fields listed for the opcode, the process aborts exactly when the canonical
\* record lacks one of them, and in an imported package every opcode that
\* lists any field lists the required ones.
C23_ListedFieldsExtracted ==
    oc.imported = "yes" =>
       /\ ExtractedAsListed
       /\ \A opcode \in Opcodes :
             oc.serialize_fields[opcode] # {}
                => CONSENSUS_FIELDS_REQUIRED \subseteq oc.serialize_fields[opcode]

\* C23: the consensus record extract_consensus_op returns has exactly the
\* fields listed for the opcode, the process aborts when the canonical record
\* lacks one of them, and in an imported package the fields listed for each of
\* the eleven opcodes include txid, vtxindex, op, opcode and block_number.
C23_RequiredInEverySet ==
    oc.imported = "yes" =>
       /\ ExtractedAsListed
       /\ \A opcode \in Opcodes :
             CONSENSUS_FIELDS_REQUIRED \subseteq oc.serialize_fields[opcode]

\* ==========================================================================
\* Part IX.  The history of a record
\* ==========================================================================

\* the rows of a history in ascending (block_number, vtxindex) order
RECURSIVE HistoryInOrder(_)
HistoryInOrder(rows) ==
    IF rows = {} THEN <<>>
    ELSE LET first == CHOOSE r \in rows :
                         \A q \in rows :
                            \/ r.block_number < q.block_number
                            \/ r.block_number = q.block_number /\ r.vtxindex <= q.vtxindex
         IN <<first>> \o HistoryInOrder(rows \ {first})

\* a record as get_name and get_namespace return it with include_history:
\* the current row with the history rows of its history_id
WithHistory(e, rec) ==
    [f \in DOMAIN rec \cup {"history"} |->
        IF f = "history" THEN {h \in e.history : h.history_id = HistoryId(rec)} ELSE rec[f]]

\* namedb_restore_from_history(rec, block_number): the states the record went
\* through in block block_number, from the rows of its history: the state after
\* a row is what the next row holds as prior columns, or the current row
namedb_restore_from_history(rec, block_number) ==
    LET rows == HistoryInOrder(rec.history)
        current == [f \in DOMAIN rec \ {"history"} |-> rec[f]]
        StateAfter(k) == IF k < Len(rows) THEN rows[k + 1].prior ELSE current
        at == {k \in 1..Len(rows) : rows[k].block_number = block_number}
    IN IF at = {} THEN <<>>
       ELSE LET lo == CHOOSE k \in at : \A j \in at : k <= j
            IN [i \in 1..Cardinality(at) |->
                   WithVtxindex(StateAfter(lo + i - 1), rows[lo + i - 1])]

\* a restore that returns the states of every block up to block_number
restore_from_history_UpTo(rec, block_number) ==
    LET rows == HistoryInOrder(rec.history)
        current == [f \in DOMAIN rec \ {"history"} |-> rec[f]]
        StateAfter(k) == IF k < Len(rows) THEN rows[k + 1].prior ELSE current
        at == {k \in 1..Len(rows) : rows[k].block_number <= block_number}
    IN IF at = {} THEN <<>>
       ELSE LET lo == CHOOSE k \in at : \A j \in at : k <= j
            IN [i \in 1..Cardinality(at) |->
                   WithVtxindex(StateAfter(lo + i - 1), rows[lo + i - 1])]

\* BlockstackDB.restore_from_history(rec, block_number)
restore_from_history(rec, block_number) == namedb_restore_from_history(rec, block_number)

\* the records of the ops of block on the name or namespace history_id, in
\* the order they were committed in
InBlockStates(e, history_id, block) ==
    LET OnEntity(op) == \/ "name" \in DOMAIN op /\ op.name = history_id
                        \/ /\ "name" \notin DOMAIN op
                           /\ "namespace_id" \in DOMAIN op
                           /\ op.namespace_id = history_id
    IN SelectSeq(e.snapshots[block], OnEntity)

\* the state is the state the committed op left, in the fields of the op
SameState(state, op) ==
    \A f \in DOMAIN op : f \in DOMAIN state /\ state[f] = op[f]

HandleCommitInit ==
    /\ HandleInit
    /\ OpCheckIdle
    /\ \E e0 \in {NamespaceUp(EmptyEngine, NAME_LIFE_LIFETIME)} :
       \E e1 \in {NamePreordered(e0, NamePool[1])} :
       \E e2 \in {NamePreordered(NameUp(e0), NamePool[NumNames])} :
       \E e \in {e1, e2}, disposition \in {DISPOSITION_RW, DISPOSITION_RO} :
          /\ engine = [e EXCEPT !.disposition = disposition]
          /\ peer = engine
    /\ stream = MaxNameBlock

\* what becomes of the engine when a commit_state_* method that was called
\* with the next op of checked_ops has ended with c
StateCommitted(c) ==
    IF c.raised THEN os_abort(db_rollback(c.e))
    ELSE IF c.e.aborted THEN c.e
    ELSE [c.e EXCEPT !.ncommitted = @ + 1]

\* a commit_state_* method may be called with an op
MayCall ==
    /\ Running
    /\ engine.phase = "commit"
    /\ engine.ncommitted = Len(engine.checked_ops)
    /\ Len(engine.checked_ops) < MaxTx

\* commit_state_preorder is called with a preorder
CommitStatePreorderCall(op) ==
    /\ MayCall
    /\ op.opcode \in OPCODE_PREORDER_OPS
    /\ \E e \in {[engine EXCEPT !.checked_ops = Append(@, op)]} :
          engine' = StateCommitted(commit_state_preorder(e, op, block_id(e)))
    /\ peer' = engine'
    /\ UNCHANGED stream

\* commit_state_create is called with a creation
CommitStateCreateCall(op) ==
    /\ MayCall
    /\ op.opcode \in OPCODE_CREATION_OPS
    /\ \E e \in {[engine EXCEPT !.checked_ops = Append(@, op)]} :
          engine' = StateCommitted(commit_state_create(e, op, block_id(e)))
    /\ peer' = engine'
    /\ UNCHANGED stream

\* commit_state_transition is called with a transition
CommitStateTransitionCall(op) ==
    /\ MayCall
    /\ op.opcode \in OPCODE_TRANSITION_OPS
    /\ \E e \in {[engine EXCEPT !.checked_ops = Append(@, op)]} :
          engine' = StateCommitted(commit_state_transition(e, op, block_id(e)))
    /\ peer' = engine'
    /\ UNCHANGED stream

HandleCommitNext ==
    \/ \E op \in CommitCallOps(engine) : CommitCall(op) /\ UNCHANGED <<hvars, ovars>>
    \/ \E op \in CommitCallOps(engine) : CommitStatePreorderCall(op) /\ UNCHANGED <<hvars, ovars>>
    \/ \E op \in CommitCallOps(engine) : CommitStateCreateCall(op) /\ UNCHANGED <<hvars, ovars>>
    \/ \E op \in CommitCallOps(engine) : CommitStateTransitionCall(op) /\ UNCHANGED <<hvars, ovars>>
    \/ EndCheck /\ UNCHANGED <<hvars, ovars>>
    \/ CommitFinished /\ UNCHANGED <<hvars, ovars>>

HandleCommitSpec == HandleCommitInit /\ [][HandleCommitNext]_vars

\* C39: commit_operation, commit_state_preorder, commit_state_create and
\* commit_state_transition called on a handle whose disposition is not
\* read-write end with the process aborted and without a write: the tables
\* and what is committed are as they were before the call; and no step of a
\* handle that is not read-write changes the tables or what is committed.
C39_ReadOnlyHandleNeverWrites ==
    /\ [][(CallStep /\ engine.disposition # DISPOSITION_RW)
            => /\ engine'.aborted
               /\ Tables(engine') = Tables(engine)
               /\ engine'.committed = engine.committed]_vars
    /\ [][engine.disposition # DISPOSITION_RW
            => /\ Tables(engine') = Tables(engine)
               /\ engine'.committed = engine.committed
               /\ engine'.disposition = engine.disposition]_vars

\* a commit method was called on a read-only handle with a transition of a
\* registered name in the second block of the handle: the process is aborted
C39_Witness ==
    /\ engine.disposition = DISPOSITION_RO
    /\ engine.aborted
    /\ engine.phase = "commit"
    /\ engine.checked_ops # <<>>
    /\ engine.checked_ops[Len(engine.checked_ops)].opcode = "NAME_RENEWAL"
    /\ get_name(engine, engine.checked_ops[Len(engine.checked_ops)].name, engine.lastblock, FALSE) # NoRec
    /\ engine.ncommitted = 0
    /\ Tables(engine) = engine.committed


\* ==========================================================================
\* Part XI.  A block checked again after its collisions were installed
\* ==========================================================================

\* the transactions of a block
ReplayMaxTx == 3

\* the transactions the block is made of
ReplayTxOps == {tx \in TxOps : tx.paid}

\* oc holds the pass over the block ("scan", then "check"), the transactions
\* of the block, the positions of those that collided in the scan, and what
\* find_collisions returned
ReplayIdle ==
    oc = [pass |-> "scan", txs |-> <<>>, collided |-> {},
          found |-> find_collisions(<<>>)]

\* two wallets have preordered the first name in one block
NamePreorderedTwice(e) ==
    CHOOSE y \in
      {RunBlock(e, <<[opcode |-> "NAME_PREORDER", name |-> NamePool[1],
                      namespace_id |-> get_namespace_from_name(NamePool[1]),
                      sender |-> make_payment_script(1), recipient |-> 1,
                      paid |-> TRUE, lifetime |-> 0],
                     [opcode |-> "NAME_PREORDER", name |-> NamePool[1],
                      namespace_id |-> get_namespace_from_name(NamePool[1]),
                      sender |-> make_payment_script(2), recipient |-> 2,
                      paid |-> TRUE, lifetime |-> 0]>>)} : TRUE

\* the block comes over an empty database, after the namespace was brought
\* up, or after two wallets preordered the same name
ReplayInit ==
    /\ HandleInit
    /\ ReplayIdle
    /\ \E e0 \in {EmptyEngine} :
       \E e1 \in {NamespaceUp(e0, NAMESPACE_LIFETIME)} :
       \E e2 \in {NamePreorderedTwice(e1)} :
       \E e \in {e0, e1, e2} : engine = e /\ peer = e
    /\ stream = 1

\* the positions of the transactions whose ops are flagged in checked_ops
FlaggedTxs(e) ==
    {e.checked_ops[i].vtxindex + 1 :
        i \in {j \in 1..Len(e.checked_ops) : nameop_is_collided(e.checked_ops[j])}}

\* op_check rejects the transaction, and accepts it when no id is recorded
\* for the block: it is rejected by its collision check
RejectedForCollision(e, tx) ==
    /\ ~op_check(e, NameOp(tx, e.vtxindex), block_id(e), e.checked_ops).s.rc
    /\ op_check([e EXCEPT !.collisions = clear_collisions(@, block_id(e))],
                NameOp(tx, e.vtxindex), block_id(e), e.checked_ops).s.rc

\* the next transaction of the block is checked for the first time
ScanOp(tx) ==
    /\ oc.pass = "scan"
    /\ Running
    /\ Len(oc.txs) < ReplayMaxTx
    /\ engine' = process_check(engine, tx)
    /\ peer' = engine'
    /\ oc' = [oc EXCEPT !.txs = Append(@, tx),
                        !.collided = @ \cup FlaggedTxs(engine')
                                       \cup (IF RejectedForCollision(engine, tx)
                                             THEN {Len(oc.txs) + 1} ELSE {})]
    /\ UNCHANGED stream

\* find_collisions(checked_ops), then put_collisions(block_id, collisions);
\* the ops of the block are checked again from the first one
ScanFinished ==
    /\ oc.pass = "scan"
    /\ Running
    /\ \E collisions \in {find_collisions(engine.checked_ops)} :
          /\ engine' = [engine EXCEPT
                           !.collisions = put_collisions(@, block_id(engine), collisions),
                           !.checked_ops = <<>>,
                           !.vtxindex = 0]
          /\ oc' = [oc EXCEPT !.pass = "check", !.found = collisions]
    /\ peer' = engine'
    /\ UNCHANGED stream

\* the next transaction of the block is checked again
ReplayOp ==
    /\ oc.pass = "check"
    /\ Running
    /\ engine.vtxindex < Len(oc.txs)
    /\ engine' = process_check(engine, oc.txs[engine.vtxindex + 1])
    /\ peer' = engine'
    /\ UNCHANGED <<stream, oc>>

ReplayNext ==
    \/ \E tx \in ReplayTxOps : ScanOp(tx) /\ UNCHANGED hvars
    \/ ScanFinished /\ UNCHANGED hvars
    \/ ReplayOp /\ UNCHANGED hvars

ReplaySpec == ReplayInit /\ [][ReplayNext]_vars

\* C34: once the collisions find_collisions found in the checked ops of a
\* block are installed with put_collisions for that block, check_collision
\* returns True for every recorded history id under its key at that block,
\* from the first check of the second pass on, and every transaction that
\* collided in the first pass (its op was flagged, or its collision check
\* rejected it) is rejected when it is checked again.
C34_ReplayRejectsCollided ==
    /\ [](oc.pass = "check"
            => \A q \in CollisionKinds : \A history_id \in oc.found[q.history_id_key] :
                  check_collision_state(engine.collisions, q.history_id_key, history_id,
                                        block_id(engine), engine.checked_ops,
                                        q.affected_opcodes).rc)
    /\ [][(/\ oc.pass = "check"
           /\ oc'.pass = "check"
           /\ engine'.vtxindex = engine.vtxindex + 1
           /\ engine.vtxindex + 1 \in oc.collided)
            => /\ ~engine'.aborted
               /\ Len(engine'.checked_ops) = Len(engine.checked_ops)]_vars

\* the second pass is over: three registrations of one name collided in the
\* first pass, the first of them was then in checked_ops, and none is now
C34_Witness ==
    /\ oc.pass = "check"
    /\ Len(oc.txs) = 3
    /\ engine.vtxindex = 3
    /\ oc.collided = {1, 2, 3}
    /\ oc.found.name # {}
    /\ \A i \in 1..3 : oc.txs[i].opcode = "NAME_REGISTRATION"
    /\ engine.checked_ops = <<>>
    /\ ~engine.aborted

====
